---------------------------- MODULE Spec2Model ----------------------------
(***************************************************************************)
(* A model of the USB On-The-Go host driver of the atsam3x HAL             *)
(* (hal/src/uotghs/mod.rs and hal/src/uotghs/pipe.rs).                     *)
(*                                                                         *)
(* The specifications of the module:                                       *)
(*   Spec      the host: interrupt handler, task(), reset()                *)
(*   SpecLife  Spec with the history of the attached device's address      *)
(*   SpecIrq   the interrupt handler step by step, with the hardware's     *)
(*             clock-usable bit; SpecIrqFair adds the fairness of its      *)
(*             steps and of the hardware                                   *)
(*   SpecDev   the DeviceTable alone, driven through next() and remove()   *)
(*   SpecPipe  the pipe manager: Pipe::alloc / init_n / free on the        *)
(*             pipe-enable, pipe-configuration and pipe-address registers  *)
(*   SpecXfer  the data stage of a control transfer and the bulk           *)
(*             transfers on an allocated pipe: Pipe::send /                *)
(*             is_transfer_complete under the NAK limit                    *)
(*   SpecSize  Pipe::init_0 / init_n applied once, for every packet size   *)
(*   SpecIo    one call on a pipe handle: send, write, read,               *)
(*             is_transfer_complete, configure_address, enabled, enable,   *)
(*             disable, reset                                              *)
(*                                                                         *)
(* Option<T> is modelled as a sequence: None is <<>> and Some(x) is <<x>>. *)
(***************************************************************************)
EXTENDS Integers, Sequences, FiniteSets, TLC

VARIABLES
    host_state,      \* UsbOtgHs.host_state
    events,          \* EVENTS: the ring buffer between handler and task
    devices,         \* UsbOtgHs.devices.tbl
    hstimr,          \* UOTGHS.HSTIMR: the host interrupt mask (dconnie, ddiscie)
    halted,          \* "running", or how the program stopped: "panic" / "hang"
    last,            \* observation of the last host operation (history only)
    dlast,           \* observation of the last DeviceTable call (history only)
    nextRun,         \* results of the next() calls made so far, while no remove() was made
    noRemove,        \* TRUE until the first remove()
    hstpip,          \* UOTGHS.HSTPIP: pen[i], the pipe-enable bits
    hstpipcfg,       \* UOTGHS.HSTPIPCFG[i]: alloc bit, psize, ptoken, pepnum
    hstaddr,         \* UOTGHS.HSTADDR1..3: the address sub-field of each pipe
    hstpipisr,       \* UOTGHS.HSTPIPISR[i]: the completion flags of each pipe
    hstpipimr,       \* UOTGHS.HSTPIPIMR[i]: pfreeze and fifocon of each pipe
    ram,             \* the bytes at UOTGHS_RAM_ADDR that Pipe::read / write reach
    overflow_checks, \* the build: TRUE panics on integer overflow, FALSE wraps
    live,            \* live[i]: pipes returned by alloc for channel i and not yet freed
    pipeOps,         \* number of pipe-manager calls made
    plast,           \* observation of the last pipe-manager call (history only)
    xfer,            \* the transfer in progress: kind, pipe, token, attempts, result
    observed,        \* the last entry the handler pushed since the last flush (history only)
    assigned,        \* the address the last enumeration set with SetAddress (history only)
    ticks,           \* what Driver::tick returned in the last task() call (history only)
    hsteps,          \* the steps the running handler invocation still has to make
    gflags,          \* the handler's local gflags: its copy of SR (clkusable)
    sr,              \* UOTGHS.SR as the hardware holds it now (clkusable)
    spins            \* failed tests of the wait loop's condition, modulo MaxSpins + 1

hostVars == <<host_state, events, hstimr, halted, last>>
devVars  == <<dlast, nextRun, noRemove>>
pipeVars == <<hstpip, hstpipcfg, hstaddr, hstpipisr, hstpipimr, ram,
              overflow_checks, live, pipeOps, plast, xfer>>
histVars == <<observed, assigned, ticks>>
irqVars  == <<hsteps, gflags, sr, spins>>
vars     == <<host_state, events, devices, hstimr, halted, last, dlast, nextRun,
              noRemove, hstpip, hstpipcfg, hstaddr, hstpipisr, hstpipimr, ram,
              overflow_checks, live,
              pipeOps, plast, xfer, observed, assigned, ticks, hsteps, gflags,
              sr, spins>>

---------------------------------------------------------------------------
\* Program constants.

MAX_DEVICES == 4
NAK_LIMIT == 15
MAX_PIPES == 10

\* Bounds of the model.

\* Entries the ring buffer holds before unshift() reports BufferFull.
EventCapacity == 2
\* Drivers in the slice passed to task().
NumDrivers == 2
\* next() calls recorded in nextRun.
MaxNextCalls == 6
\* Pipe-manager calls per behaviour of SpecPipe.
MaxPipeOps == 3
\* Failed tests of the handler's wait loop counted in spins before it wraps.
MaxSpins == 2

None == <<>>
Some(x) == <<x>>
Unwrap(o) == o[1]

Drivers == 1..NumDrivers

---------------------------------------------------------------------------
\* HostState and TaskState (mod.rs 27-48).

NoVbus == "NoVbus"
Detached == "Detached"
AttachedConfiguring == "Attached(Configuring)"
AttachedRunning == "Attached(Running)"
AttachedError == "Attached(Error)"
HostError == "Error"

HostState ==
    {NoVbus, Detached, AttachedConfiguring, AttachedRunning, AttachedError, HostError}

\* An entry of the ring buffer is a HostState value.  `why` is history only:
\* the observation of handler() that pushed the entry.  task() never reads it.
Event(state, why) == [state |-> state, why |-> why]

---------------------------------------------------------------------------
\* The ring buffer (starb): Writer::unshift appends at the tail and fails
\* when the buffer is full, Reader::shift takes from the head.

\* An unshift that overwrites the oldest unread entry when the buffer is
\* full.
UnshiftOverwrite(q, e) ==
    IF Len(q) >= EventCapacity
    THEN [ok |-> TRUE, q |-> Append(Tail(q), e)]
    ELSE [ok |-> TRUE, q |-> Append(q, e)]

\* An unshift that writes the entry at the head, before the unread ones.
UnshiftFront(q, e) ==
    IF Len(q) >= EventCapacity
    THEN [ok |-> FALSE, q |-> q]
    ELSE [ok |-> TRUE, q |-> <<e>> \o q]

Unshift(q, e) ==
    IF Len(q) >= EventCapacity
    THEN [ok |-> FALSE, q |-> q]
    ELSE [ok |-> TRUE, q |-> Append(q, e)]

\* A shift that returns the entry at the head and drops the others.
ShiftDrain(q) ==
    IF q = <<>>
    THEN [ret |-> None, q |-> q]
    ELSE [ret |-> Some(Head(q)), q |-> <<>>]

\* A shift that takes the entry at the tail, the last one written.
ShiftNewest(q) ==
    IF q = <<>>
    THEN [ret |-> None, q |-> q]
    ELSE [ret |-> Some(q[Len(q)]), q |-> SubSeq(q, 1, Len(q) - 1)]

Shift(q) ==
    IF q = <<>>
    THEN [ret |-> None, q |-> q]
    ELSE [ret |-> Some(Head(q)), q |-> Tail(q)]

---------------------------------------------------------------------------
\* DeviceTable (mod.rs 212-243).  tbl[i] is None or Some(addr).

Slots == 0..(MAX_DEVICES - 1)

DeviceTable_new == [i \in Slots |-> None]

\* A find that stops one slot early.
FindNoneSkipLast(tbl) ==
    LET free == {i \in Slots : tbl[i] = None /\ i < MAX_DEVICES - 1}
    IN  IF free = {} THEN None
        ELSE Some(CHOOSE i \in free : \A j \in free : i <= j)

\* A find that takes the last free slot instead of the first.
FindNoneLast(tbl) ==
    LET free == {i \in Slots : tbl[i] = None}
    IN  IF free = {} THEN None
        ELSE Some(CHOOSE i \in free : \A j \in free : i >= j)

\* self.tbl.iter_mut().enumerate().find(|(_, x)| x.is_none())
FindNone(tbl) ==
    LET free == {i \in Slots : tbl[i] = None}
    IN  IF free = {} THEN None
        ELSE Some(CHOOSE i \in free : \A j \in free : i <= j)

\* DeviceTable::next: the slot found gets Device { addr: i as u8 }.
DeviceTable_next(tbl) ==
    LET f == FindNone(tbl)
    IN  IF f = None
        THEN [tbl |-> tbl, ret |-> None]
        ELSE [tbl |-> [tbl EXCEPT ![Unwrap(f)] = Some(Unwrap(f))],
              ret |-> Some(Unwrap(f))]

\* DeviceTable::remove: self.tbl[addr as usize].take(); the index panics
\* when addr is not a slot of the table.
DeviceTable_remove(tbl, addr) ==
    IF addr \notin Slots
    THEN [panic |-> TRUE, tbl |-> tbl, ret |-> None]
    ELSE [panic |-> FALSE, tbl |-> [tbl EXCEPT ![addr] = None], ret |-> tbl[addr]]

Occupied(tbl) == {i \in Slots : tbl[i] # None}

---------------------------------------------------------------------------
\* Collaborators of the host: the drivers passed to task() and the control
\* transfers.  Their outcomes are inputs of the actions.

\* Result<(), DriverError> of Driver::tick and Driver::add_device.
DriverOk == [kind |-> "Ok", addr |-> 0]
DriverTransient == [kind |-> "Transient", addr |-> 0]
DriverPermanent(a) == [kind |-> "Permanent", addr |-> a]

\* The u8 carried by DriverError::Permanent: every slot of the table, and
\* MAX_DEVICES standing for the addresses that are no slot of it.
PermanentAddrs == 0..MAX_DEVICES

TickResults ==
    {DriverOk, DriverTransient} \cup {DriverPermanent(a) : a \in PermanentAddrs}

AddResults == {DriverOk, DriverTransient, DriverPermanent(0)}

\* UOTGHS.SR.SPEED as configure_dev matches it.
Speeds == {"HIGH_SPEED", "FULL_SPEED", "LOW_SPEED"}

\* configure_dev's match on the link speed (mod.rs 411-416).
MaxPacketSize(speed) ==
    CASE speed = "HIGH_SPEED" -> 512
      [] speed = "FULL_SPEED" -> 64
      [] speed = "LOW_SPEED" -> 8

\* A call the host makes on a collaborator, as recorded in last.calls; ret
\* is what want_device returned (TRUE for the other calls).
Call(name, drv, addr) ==
    [call |-> name, drv |-> drv, addr |-> addr, ret |-> TRUE]

\* d.want_device(&dev_desc) and the bool it returned.
WantDevice(d, ret) == [Call("want_device", d, 0) EXCEPT !.ret = ret]

\* USBHost::control_transfer: the transfer itself is delegated to a pipe
\* table; what the host sees is Ok(len) or Err(TransferError).
ControlTransfer(ok) == IF ok THEN "Ok" ELSE "TransferError"

\* A driver loop that gives the device to every driver that wants it.
RECURSIVE OfferLoopAddsToAll(_, _, _, _, _)
OfferLoopAddsToAll(d, want, addRes, addr, calls) ==
    IF d > NumDrivers
    THEN [result |-> "Ok", calls |-> calls]
    ELSE LET asked == Append(calls, WantDevice(d, want[d]))
         IN  IF want[d]
             THEN OfferLoopAddsToAll(d + 1, want, addRes, addr,
                                     Append(asked, Call("add_device", d, addr)))
             ELSE OfferLoopAddsToAll(d + 1, want, addRes, addr, asked)

\* A driver loop that fails the enumeration when no driver wants the device.
RECURSIVE OfferLoopNeedsDriver(_, _, _, _, _)
OfferLoopNeedsDriver(d, want, addRes, addr, calls) ==
    IF d > NumDrivers
    THEN [result |-> "DriverError", calls |-> calls]
    ELSE LET asked == Append(calls, WantDevice(d, want[d]))
         IN  IF want[d]
             THEN [result |-> IF addRes.kind = "Ok" THEN "Ok" ELSE "DriverError",
                   calls |-> Append(asked, Call("add_device", d, addr))]
             ELSE OfferLoopNeedsDriver(d + 1, want, addRes, addr, asked)

\* The driver loop of configure_dev (mod.rs 447-456): the first driver whose
\* want_device is true gets add_device and its result is returned.
RECURSIVE OfferLoop(_, _, _, _, _)
OfferLoop(d, want, addRes, addr, calls) ==
    IF d > NumDrivers
    THEN [result |-> "Ok", calls |-> calls]
    ELSE LET asked == Append(calls, WantDevice(d, want[d]))
         IN  IF want[d]
             THEN [result |-> IF addRes.kind = "Ok" THEN "Ok" ELSE "DriverError",
                   calls |-> Append(asked, Call("add_device", d, addr))]
             ELSE OfferLoop(d + 1, want, addRes, addr, asked)

\* An enumeration that goes on to SetAddress with slot 0 when next() found
\* no free slot.
ConfigureDevIgnoreFull(tbl, in) ==
    LET mps  == MaxPacketSize(in.speed)
        gd   == <<Call("GetDescriptor", 0, 0)>>
        n    == DeviceTable_next(tbl)
        addr == IF n.ret = None THEN 0 ELSE Unwrap(n.ret)
        sa   == Append(gd, Call("SetAddress", 0, addr))
        o    == OfferLoop(1, in.want, in.addRes, addr, sa)
    IN  IF ControlTransfer(in.gdOk) # "Ok"
        THEN [result |-> "TransferError", tbl |-> tbl, calls |-> gd, mps |-> mps]
        ELSE IF ControlTransfer(in.saOk) # "Ok"
        THEN [result |-> "TransferError", tbl |-> n.tbl, calls |-> sa, mps |-> mps]
        ELSE [result |-> o.result, tbl |-> n.tbl, calls |-> o.calls, mps |-> mps]

\* UsbOtgHs::configure_dev (mod.rs 409-457).
ConfigureDev(tbl, in) ==
    LET mps == MaxPacketSize(in.speed)
        gd  == <<Call("GetDescriptor", 0, 0)>>
        n   == DeviceTable_next(tbl)
    IN  IF ControlTransfer(in.gdOk) # "Ok"
        THEN [result |-> "TransferError", tbl |-> tbl, calls |-> gd, mps |-> mps]
        ELSE IF n.ret = None
        THEN [result |-> "OutOfDevices", tbl |-> n.tbl, calls |-> gd, mps |-> mps]
        ELSE LET addr == Unwrap(n.ret)
                 sa   == Append(gd, Call("SetAddress", 0, addr))
                 o    == OfferLoop(1, in.want, in.addRes, addr, sa)
             IN  IF ControlTransfer(in.saOk) # "Ok"
                 THEN [result |-> "TransferError", tbl |-> n.tbl, calls |-> sa,
                       mps |-> mps]
                 ELSE [result |-> o.result, tbl |-> n.tbl, calls |-> o.calls,
                       mps |-> mps]

EnumInputs ==
    [speed : Speeds, gdOk : BOOLEAN, saOk : BOOLEAN,
     want : [Drivers -> BOOLEAN], addRes : AddResults]

\* A driver loop that tells the driver to remove the device and keeps the
\* device's slot.
RECURSIVE TickLoopKeepsSlot(_, _, _, _)
TickLoopKeepsSlot(d, tick, tbl, calls) ==
    IF d > NumDrivers
    THEN [panic |-> FALSE, tbl |-> tbl, calls |-> calls]
    ELSE LET ticked == Append(calls, Call("tick", d, 0))
         IN  IF tick[d].kind = "Permanent"
             THEN TickLoopKeepsSlot(d + 1, tick, tbl,
                                    Append(ticked,
                                           Call("remove_device", d, tick[d].addr)))
             ELSE TickLoopKeepsSlot(d + 1, tick, tbl, ticked)

\* A driver loop that tears the device down on every error of a tick,
\* Transient ones included.
RECURSIVE TickLoopRemovesOnAnyError(_, _, _, _)
TickLoopRemovesOnAnyError(d, tick, tbl, calls) ==
    IF d > NumDrivers
    THEN [panic |-> FALSE, tbl |-> tbl, calls |-> calls]
    ELSE LET ticked == Append(calls, Call("tick", d, 0))
         IN  IF tick[d].kind # "Ok"
             THEN LET a  == tick[d].addr
                      rm == DeviceTable_remove(tbl, a)
                      c2 == Append(ticked, Call("remove_device", d, a))
                  IN  IF rm.panic
                      THEN [panic |-> TRUE, tbl |-> rm.tbl, calls |-> c2]
                      ELSE TickLoopRemovesOnAnyError(d + 1, tick, rm.tbl, c2)
             ELSE TickLoopRemovesOnAnyError(d + 1, tick, tbl, ticked)

\* The driver loop of task() in Attached(Running) (mod.rs 396-403).
RECURSIVE TickLoop(_, _, _, _)
TickLoop(d, tick, tbl, calls) ==
    IF d > NumDrivers
    THEN [panic |-> FALSE, tbl |-> tbl, calls |-> calls]
    ELSE LET ticked == Append(calls, Call("tick", d, 0))
         IN  IF tick[d].kind = "Permanent"
             THEN LET a  == tick[d].addr
                      rm == DeviceTable_remove(tbl, a)
                      c2 == Append(ticked, Call("remove_device", d, a))
                  IN  IF rm.panic
                      THEN [panic |-> TRUE, tbl |-> rm.tbl, calls |-> c2]
                      ELSE TickLoop(d + 1, tick, rm.tbl, c2)
             ELSE TickLoop(d + 1, tick, tbl, ticked)

---------------------------------------------------------------------------
\* The interrupt handler (mod.rs 112-203).  Its writes to the interrupt
\* clear registers and to CTRL/HSTCTRL act on bits the driver never reads
\* back; the mask bits it sets and clears and the events it pushes are kept.

\* The status bits one invocation reads: HSTISR (ddisci, dconni) and SR
\* (vberri, vbusti, vbus, clkusable).
HandlerInputs ==
    [ddisci : BOOLEAN, dconni : BOOLEAN, vberri : BOOLEAN, vbusti : BOOLEAN,
     vbus : BOOLEAN, clkusable : BOOLEAN]

NoEvent == Event(NoVbus, "")
Step(op, bit, ev) == [op |-> op, bit |-> bit, ev |-> ev]

\* A handler whose connect branch leaves connect detection enabled.
HandlerStepsKeepsConnectEnabled(in, imask) ==
    (IF in.ddisci /\ imask.ddiscie
     THEN <<Step("idr", "ddiscie", NoEvent), Step("ier", "dconnie", NoEvent),
            Step("push", "", Event(Detached, "disconnect"))>>
     ELSE <<>>)
    \o
    (IF in.dconni /\ imask.dconnie
     THEN <<Step("ier", "ddiscie", NoEvent),
            Step("push", "", Event(AttachedConfiguring, "connect"))>>
     ELSE <<>>)
    \o
    (IF in.vberri
     THEN <<Step("push", "", Event(Detached, "vbus_error"))>>
     ELSE <<>>)
    \o
    (IF ~in.clkusable THEN <<Step("wait", "", NoEvent)>> ELSE <<>>)
    \o
    (IF in.vbusti
     THEN <<Step("push", "",
                 IF in.vbus THEN Event(Detached, "vbus_present")
                 ELSE Event(NoVbus, "vbus_lost"))>>
     ELSE <<>>)

\* The writes, pushes and waits of one invocation, in program order.  imask
\* and the flags are read once, at the top.
HandlerSteps(in, imask) ==
    (IF in.ddisci /\ imask.ddiscie
     THEN <<Step("idr", "ddiscie", NoEvent), Step("ier", "dconnie", NoEvent),
            Step("push", "", Event(Detached, "disconnect"))>>
     ELSE <<>>)
    \o
    (IF in.dconni /\ imask.dconnie
     THEN <<Step("idr", "dconnie", NoEvent), Step("ier", "ddiscie", NoEvent),
            Step("push", "", Event(AttachedConfiguring, "connect"))>>
     ELSE <<>>)
    \o
    (IF in.vberri
     THEN <<Step("push", "", Event(Detached, "vbus_error"))>>
     ELSE <<>>)
    \o
    (IF ~in.clkusable THEN <<Step("wait", "", NoEvent)>> ELSE <<>>)
    \o
    (IF in.vbusti
     THEN <<Step("push", "",
                 IF in.vbus THEN Event(Detached, "vbus_present")
                 ELSE Event(NoVbus, "vbus_lost"))>>
     ELSE <<>>)

\* Runs the steps until they end, an unwrap() of BufferFull panics, or the
\* wait on the clkusable bit read before the loop never ends.
RECURSIVE Exec(_, _)
Exec(steps, st) ==
    IF steps = <<>> \/ st.halted # "running"
    THEN st
    ELSE LET s == Head(steps)
         IN  CASE s.op = "idr" ->
                    Exec(Tail(steps), [st EXCEPT !.mask[s.bit] = FALSE])
               [] s.op = "ier" ->
                    Exec(Tail(steps), [st EXCEPT !.mask[s.bit] = TRUE])
               [] s.op = "wait" ->
                    [st EXCEPT !.halted = "hang"]
               [] s.op = "push" ->
                    LET u == Unshift(st.q, s.ev)
                    IN  IF u.ok
                        THEN Exec(Tail(steps),
                                  [st EXCEPT !.q = u.q,
                                             !.pushed = Append(st.pushed, s.ev)])
                        ELSE [st EXCEPT !.halted = "panic"]

Observation(op, pre, popped, preDevices, calls, enum, passed, mps, pushed) ==
    [op |-> op, pre |-> pre, popped |-> popped, preDevices |-> preDevices,
     calls |-> calls, enum |-> enum, passed |-> passed, mps |-> mps,
     pushed |-> pushed]

\* A handler that takes the state it observed into host_state itself.
HandlerSetsState ==
    /\ halted = "running"
    /\ \E steps \in {HandlerSteps(in, hstimr) : in \in HandlerInputs} :
         LET st == Exec(steps,
                        [q |-> events, mask |-> hstimr, halted |-> "running",
                         pushed |-> <<>>])
         IN  /\ events' = st.q
             /\ hstimr' = st.mask
             /\ halted' = st.halted
             /\ last' = Observation("handler", host_state, None, devices, <<>>,
                                    "none", <<>>, 0, st.pushed)
             /\ observed' = IF st.pushed = <<>> THEN observed
                            ELSE Some(st.pushed[Len(st.pushed)])
             /\ host_state' = IF st.pushed = <<>> THEN host_state
                              ELSE st.pushed[Len(st.pushed)].state
    /\ ticks' = <<>>
    /\ UNCHANGED <<devices, assigned>>
    /\ UNCHANGED devVars
    /\ UNCHANGED pipeVars
    /\ UNCHANGED irqVars

Handler ==
    /\ halted = "running"
    /\ \E steps \in {HandlerSteps(in, hstimr) : in \in HandlerInputs} :
         LET st == Exec(steps,
                        [q |-> events, mask |-> hstimr, halted |-> "running",
                         pushed |-> <<>>])
         IN  /\ events' = st.q
             /\ hstimr' = st.mask
             /\ halted' = st.halted
             /\ last' = Observation("handler", host_state, None, devices, <<>>,
                                    "none", <<>>, 0, st.pushed)
             /\ observed' = IF st.pushed = <<>> THEN observed
                            ELSE Some(st.pushed[Len(st.pushed)])
    /\ ticks' = <<>>
    /\ UNCHANGED <<host_state, devices, assigned>>
    /\ UNCHANGED devVars
    /\ UNCHANGED pipeVars
    /\ UNCHANGED irqVars

---------------------------------------------------------------------------
\* UsbOtgHs::task (mod.rs 381-407).  One action: after the shift, task()
\* reads neither the buffer nor the interrupt mask, and the handler writes
\* nothing else that task() uses, so an interrupt taken inside task() gives
\* the state of the same interrupt taken right after it.

\* The event task() shifts off the buffer, and the host state it then
\* matches on: host_state = event when there was one.
Popped == Shift(events).ret

\* A task() that drops the event it shifted and keeps the state it had.
MatchedKeepsState == host_state

\* A task() that takes no event into the state while a device is attached.
MatchedHoldsAttached ==
    IF Popped = None \/ host_state \in {AttachedRunning, AttachedError}
    THEN host_state
    ELSE Unwrap(Popped).state

Matched == IF Popped = None THEN host_state ELSE Unwrap(Popped).state
PassedOnPop == IF Popped = None THEN <<>> ELSE <<Matched>>

\* A task() that reports every enumeration as a success.
AfterConfigureAlwaysRunning(result) == AttachedRunning

\* The state task() leaves after configure_dev returned.
AfterConfigure(result) ==
    IF result = "Ok" THEN AttachedRunning ELSE AttachedError

\* The results of the tick calls the driver loop made, in call order.
Returned(tick, calls) ==
    LET n == Cardinality({i \in 1..Len(calls) : calls[i].call = "tick"})
    IN  [d \in 1..n |-> tick[d]]

TaskConfigure ==
    /\ Matched = AttachedConfiguring
    /\ \E in \in EnumInputs :
         LET r == ConfigureDev(devices, in)
         IN  /\ host_state' = AfterConfigure(r.result)
             /\ devices' = r.tbl
             /\ last' = Observation("task", host_state, Popped, devices, r.calls,
                                    r.result,
                                    Append(PassedOnPop, AfterConfigure(r.result)),
                                    r.mps, <<>>)
    /\ halted' = halted
    /\ ticks' = <<>>

TaskRunning ==
    /\ Matched = AttachedRunning
    /\ \E tick \in [Drivers -> TickResults] :
         LET r == TickLoop(1, tick, devices, <<>>)
         IN  /\ devices' = r.tbl
             /\ halted' = IF r.panic THEN "panic" ELSE halted
             /\ last' = Observation("task", host_state, Popped, devices, r.calls,
                                    "none", PassedOnPop, 0, <<>>)
             /\ ticks' = Returned(tick, r.calls)
    /\ host_state' = Matched

TaskOther ==
    /\ Matched \notin {AttachedConfiguring, AttachedRunning}
    /\ host_state' = Matched
    /\ last' = Observation("task", host_state, Popped, devices, <<>>, "none",
                           PassedOnPop, 0, <<>>)
    /\ ticks' = <<>>
    /\ UNCHANGED <<devices, halted>>

\* task() runs in the polling context, while no handler invocation runs.
TaskCall ==
    /\ halted = "running"
    /\ hsteps = <<>>
    /\ events' = Shift(events).q
    /\ \/ TaskConfigure
       \/ TaskRunning
       \/ TaskOther
    /\ UNCHANGED <<hstimr, observed>>
    /\ UNCHANGED devVars
    /\ UNCHANGED pipeVars
    /\ UNCHANGED irqVars

Task ==
    /\ TaskCall
    /\ UNCHANGED assigned

\* The address configure_dev set on the device: the one of its SetAddress
\* transfer, when that transfer was made and did not fail (a failed transfer
\* ends configure_dev with TransferError).
AddressSet(calls, result) ==
    LET sa == {i \in 1..Len(calls) : calls[i].call = "SetAddress"}
    IN  IF sa # {} /\ result # "TransferError"
        THEN Some(calls[CHOOSE i \in sa : TRUE].addr)
        ELSE None

\* task(), with the history of the address the attached device was given:
\* set by an enumeration, dropped when an event tells that no device is
\* attached any more (Detached, NoVbus).
TaskTracked ==
    /\ TaskCall
    /\ assigned' = IF last'.enum # "none"
                   THEN AddressSet(last'.calls, last'.enum)
                   ELSE IF last'.popped # None THEN None ELSE assigned

---------------------------------------------------------------------------
\* UsbOtgHs::reset (mod.rs 276-317).  Toggling usbe restores the registers
\* to their reset values and the event buffer is flushed; the loop over the
\* pipes then calls Pipe::reset on 0..MAX_PIPES-1, whose match has no arm
\* for pipe 9 (pipe.rs 237-251), so init() is not reached.

PipeResetPanics(pipe_num) == pipe_num > 8

Reset ==
    /\ halted = "running"
    /\ events' = <<>>
    /\ IF \E p \in 0..(MAX_PIPES - 1) : PipeResetPanics(p)
       THEN /\ halted' = "panic"
            /\ host_state' = host_state
            /\ hstimr' = [dconnie |-> FALSE, ddiscie |-> FALSE]
       ELSE \* init() (mod.rs 355-362)
            /\ halted' = halted
            /\ host_state' = NoVbus
            /\ hstimr' = [dconnie |-> TRUE, ddiscie |-> FALSE]
    /\ last' = Observation("reset", host_state, None, devices, <<>>, "none",
                           <<>>, 0, <<>>)
    /\ observed' = None
    /\ ticks' = <<>>
    /\ UNCHANGED <<devices, assigned>>
    /\ UNCHANGED devVars
    /\ UNCHANGED pipeVars
    /\ UNCHANGED irqVars

---------------------------------------------------------------------------
\* The state after UsbOtgHs::new (mod.rs 258-268).  new() does not touch the
\* peripheral: the interrupt mask is the hardware's reset value, or has the
\* connect interrupt enabled as init() (mod.rs 355-358) leaves it.

DevObservation(op, arg, ret, pre, prev) ==
    [op |-> op, arg |-> arg, ret |-> ret, pre |-> pre, prev |-> prev]

NoPrev == [op |-> "none", arg |-> 0, ret |-> None, pre |-> DeviceTable_new]

DevIdle ==
    /\ dlast = DevObservation("new", 0, None, DeviceTable_new, NoPrev)
    /\ nextRun = <<>>
    /\ noRemove = TRUE

HistIdle ==
    /\ observed = None
    /\ assigned = None
    /\ ticks = <<>>

\* No handler invocation is running.
IrqIdle ==
    /\ hsteps = <<>>
    /\ gflags = [clkusable |-> TRUE]
    /\ sr = [clkusable |-> TRUE]
    /\ spins = 0

Pipes == 0..(MAX_PIPES - 1)

\* HSTPIPCFG after a peripheral reset.
PipeCfgReset ==
    [alloc |-> FALSE, psize |-> 0, ptoken |-> "SETUP", ptype |-> "CTRL",
     pepnum |-> 0, intfrq |-> 0, pbk |-> "_1_BANK", autosw |-> FALSE]

\* HSTPIPISR and HSTPIPIMR after a peripheral reset.
PipeIsrReset ==
    [txstpi |-> FALSE, rxini |-> FALSE, txouti |-> FALSE,
     shortpacketi |-> FALSE, nakedi |-> FALSE]

PipeImrReset == [pfreeze |-> FALSE, fifocon |-> FALSE]

\* The pipe registers of the UOTGHS peripheral.
RegsReset ==
    [hstpip |-> [p \in Pipes |-> FALSE],
     hstpipcfg |-> [p \in Pipes |-> PipeCfgReset],
     hstaddr |-> [p \in Pipes |-> 0],
     hstpipisr |-> [p \in Pipes |-> PipeIsrReset],
     hstpipimr |-> [p \in Pipes |-> PipeImrReset]]

Regs ==
    [hstpip |-> hstpip, hstpipcfg |-> hstpipcfg, hstaddr |-> hstaddr,
     hstpipisr |-> hstpipisr, hstpipimr |-> hstpipimr]

\* The longest buffer the model passes to Pipe::read and Pipe::write.
MaxBuf == 2

\* The bytes of the UOTGHS RAM the pipes reach with buffers of that length.
RamBytes == 0..(MAX_PIPES + MaxBuf - 2)

RamReset == [b \in RamBytes |-> 0]

PipeObservation(op, args, ret, pipe, pre) ==
    [op |-> op, args |-> args, ret |-> ret, pipe |-> pipe, pre |-> pre]

\* No transfer was started.
XferNone ==
    [kind |-> "none", stage |-> "idle", pipe |-> 0, token |-> "SETUP",
     len |-> 0, attempts |-> 0, ret |-> "none", bytes |-> 0,
     pre |-> RegsReset]

NoArgs ==
    [address |-> 0, ep_num |-> 0, ep_type |-> "CTRL", ep_dir |-> "SETUP",
     ep_size |-> 0, poll_freq |-> 0, num_banks |-> "_1_BANK", cfgok |-> TRUE]

PipeIdle ==
    /\ hstpip = RegsReset.hstpip
    /\ hstpipcfg = RegsReset.hstpipcfg
    /\ hstaddr = RegsReset.hstaddr
    /\ hstpipisr = RegsReset.hstpipisr
    /\ hstpipimr = RegsReset.hstpipimr
    /\ ram = RamReset
    /\ overflow_checks = FALSE
    /\ live = [p \in Pipes |-> 0]
    /\ pipeOps = 0
    /\ plast = PipeObservation("none", NoArgs, "none", 0, RegsReset)
    /\ xfer = XferNone

Init ==
    /\ host_state = NoVbus
    /\ events = <<>>
    /\ devices = DeviceTable_new
    /\ hstimr \in {[dconnie |-> FALSE, ddiscie |-> FALSE],
                   [dconnie |-> TRUE, ddiscie |-> FALSE]}
    /\ halted = "running"
    /\ last = Observation("new", NoVbus, None, DeviceTable_new, <<>>, "none",
                          <<>>, 0, <<>>)
    /\ DevIdle
    /\ PipeIdle
    /\ HistIdle
    /\ IrqIdle

Next ==
    \/ Handler
    \/ Task
    \/ Reset

Spec == Init /\ [][Next]_vars

\* The host with the history of the attached device's address.
NextLife ==
    \/ Handler
    \/ TaskTracked
    \/ Reset

SpecLife == Init /\ [][NextLife]_vars

---------------------------------------------------------------------------
\* The interrupt handler step by step (mod.rs 112-183), with the hardware's
\* SR.clkusable bit changing under it.  The polling context is left out:
\* it runs only while no invocation is running, and the handler reads
\* nothing that task() writes.

\* An invocation starts: it reads HSTIMR, HSTISR and SR once (mod.rs
\* 115-116, 157); gflags is the copy of SR it keeps.
IrqEnter ==
    /\ halted = "running"
    /\ hsteps = <<>>
    /\ \E in \in HandlerInputs :
         /\ in.clkusable = sr.clkusable
         /\ hsteps' = HandlerSteps(in, hstimr)
         /\ gflags' = [clkusable |-> in.clkusable]
    /\ spins' = 0
    /\ UNCHANGED <<host_state, events, devices, hstimr, halted, last, sr>>
    /\ UNCHANGED devVars
    /\ UNCHANGED pipeVars
    /\ UNCHANGED histVars

\* `while gflags.clkusable().bit_is_clear() {}` (mod.rs 168): the condition
\* is a test of the copy gflags; the loop body reads no register.
WaitOver == gflags.clkusable

\* The invocation makes its next step: a write to the interrupt mask, a
\* push, or one test of the wait loop's condition.
IrqStep ==
    /\ halted = "running"
    /\ hsteps # <<>>
    /\ IF Head(hsteps).op = "wait"
       THEN /\ hsteps' = IF WaitOver THEN Tail(hsteps) ELSE hsteps
            /\ spins' = IF WaitOver THEN spins
                         ELSE (spins + 1) % (MaxSpins + 1)
            /\ UNCHANGED <<events, hstimr, halted, observed>>
       ELSE LET st == Exec(<<Head(hsteps)>>,
                           [q |-> events, mask |-> hstimr, halted |-> "running",
                            pushed |-> <<>>])
            IN  /\ events' = st.q
                /\ hstimr' = st.mask
                /\ halted' = st.halted
                /\ hsteps' = IF st.halted = "running" THEN Tail(hsteps) ELSE hsteps
                /\ observed' = IF st.pushed = <<>> THEN observed
                               ELSE Some(st.pushed[1])
                /\ spins' = spins
    /\ UNCHANGED <<host_state, devices, last, gflags, sr, assigned, ticks>>
    /\ UNCHANGED devVars
    /\ UNCHANGED pipeVars

\* The hardware: the USB clock becomes usable and SR.clkusable is set.
ClockUsable ==
    /\ ~sr.clkusable
    /\ sr' = [clkusable |-> TRUE]
    /\ UNCHANGED <<hsteps, gflags, spins>>
    /\ UNCHANGED hostVars
    /\ UNCHANGED devices
    /\ UNCHANGED devVars
    /\ UNCHANGED pipeVars
    /\ UNCHANGED histVars

\* The clock is frozen between two invocations (frzclk, mod.rs 360) and
\* SR.clkusable is clear when the next interrupt comes.
ClockFrozen ==
    /\ halted = "running"
    /\ hsteps = <<>>
    /\ sr.clkusable
    /\ sr' = [clkusable |-> FALSE]
    /\ UNCHANGED <<hsteps, gflags, spins>>
    /\ UNCHANGED hostVars
    /\ UNCHANGED devices
    /\ UNCHANGED devVars
    /\ UNCHANGED pipeVars
    /\ UNCHANGED histVars

NextIrq ==
    \/ IrqEnter
    \/ IrqStep
    \/ ClockUsable
    \/ ClockFrozen

SpecIrq == Init /\ [][NextIrq]_vars

\* The processor goes on with the invocation it is in, and the hardware
\* does report the clock as usable.
SpecIrqFair ==
    /\ Init
    /\ [][NextIrq]_vars
    /\ WF_vars(IrqStep)
    /\ WF_vars(ClockUsable)

---------------------------------------------------------------------------
\* The DeviceTable driven directly: next() and remove(addr).

PrevOf(o) == [op |-> o.op, arg |-> o.arg, ret |-> o.ret, pre |-> o.pre]

DevNext ==
    /\ halted = "running"
    /\ noRemove => Len(nextRun) < MaxNextCalls
    /\ LET n == DeviceTable_next(devices)
       IN  /\ devices' = n.tbl
           /\ dlast' = DevObservation("next", 0, n.ret, devices, PrevOf(dlast))
           /\ nextRun' = IF noRemove THEN Append(nextRun, n.ret) ELSE nextRun
    /\ UNCHANGED <<noRemove, host_state, events, hstimr, halted, last>>
    /\ UNCHANGED pipeVars
    /\ UNCHANGED histVars
    /\ UNCHANGED irqVars

DevRemove ==
    /\ halted = "running"
    /\ \E addr \in PermanentAddrs :
         LET r == DeviceTable_remove(devices, addr)
         IN  /\ devices' = r.tbl
             /\ halted' = IF r.panic THEN "panic" ELSE halted
             /\ dlast' = DevObservation("remove", addr, r.ret, devices, PrevOf(dlast))
    /\ noRemove' = FALSE
    /\ UNCHANGED <<nextRun, host_state, events, hstimr, last>>
    /\ UNCHANGED pipeVars
    /\ UNCHANGED histVars
    /\ UNCHANGED irqVars

NextDev ==
    \/ DevNext
    \/ DevRemove

SpecDev == Init /\ [][NextDev]_vars

---------------------------------------------------------------------------
\* The pipe manager (pipe.rs).  The operators work on a record of the pipe
\* registers: hstpip (pen bits), hstpipcfg and hstaddr.

\* u16::next_power_of_two and u16::trailing_zeros of a power of two.
RECURSIVE NextPowerOfTwoFrom(_, _)
NextPowerOfTwoFrom(n, pw) ==
    IF pw >= n THEN pw ELSE NextPowerOfTwoFrom(n, 2 * pw)

NextPowerOfTwo(n) == NextPowerOfTwoFrom(n, 1)

RECURSIVE TrailingZeros(_)
TrailingZeros(pw) ==
    IF pw <= 1 THEN 0 ELSE 1 + TrailingZeros(pw \div 2)

\* (ep_size.next_power_of_two().trailing_zeros() - 4) as u8 (pipe.rs 83, 132):
\* a u32 subtraction, which panics on underflow in a build with overflow
\* checks and wraps in one without.  The u8 cast keeps the low 8 bits of the
\* wrapped u32, 2^32 + diff, which are diff mod 256 (256 divides 2^32).
PipeSize(ep_size, checks) ==
    LET diff == TrailingZeros(NextPowerOfTwo(ep_size)) - 4
    IN  IF diff < 0 /\ checks
        THEN [panic |-> TRUE, bits |-> 0]
        ELSE [panic |-> FALSE, bits |-> diff % 256]

\* psize().bits(v): the 3-bit PSIZE field keeps the low bits of v.
PsizeField(v) == v % 8

\* Pipe::enabled / enable / disable (pipe.rs 176-228): the match has arms
\* for pipes 0..8 only.
NoPenArm(pipe_num) == pipe_num > 8

\* An enabled() that reports every pipe as disabled.
EnabledNever(regs, pipe_num) == FALSE

Enabled(regs, pipe_num) == regs.hstpip[pipe_num]

\* enable() and disable() are reached for pipes 0..8 only: alloc calls
\* enabled() first, and free is called on pipes alloc returned.
Enable(regs, pipe_num) == [regs EXCEPT !.hstpip[pipe_num] = TRUE]

Disable(regs, pipe_num) == [regs EXCEPT !.hstpip[pipe_num] = FALSE]

\* The register of the match arm of configure_address (pipe.rs 255-296):
\* hstaddr1 for pipes 0..3, hstaddr2 for 4..7, hstaddr3 for 8 and 9; the
\* sub-field is hstaddrp<pipe_num>.
AddressRegister(pipe_num) ==
    CASE pipe_num \in {0, 1, 2, 3} -> 1
      [] pipe_num \in {4, 5, 6, 7} -> 2
      [] pipe_num \in {8, 9} -> 3

\* A configure_address that writes the whole register instead of modifying
\* it: the other sub-fields of that register take their reset value.
ConfigureAddressWrites(regs, pipe_num, address) ==
    [regs EXCEPT !.hstaddr =
        [q \in DOMAIN regs.hstaddr |->
            IF q = pipe_num THEN address
            ELSE IF AddressRegister(q) = AddressRegister(pipe_num) THEN 0
            ELSE regs.hstaddr[q]]]

\* Pipe::configure_address (pipe.rs 254-298): each arm modifies the
\* sub-field hstaddrp<pipe_num> of its register and keeps the others;
\* hstaddr[q] is the sub-field hstaddrp<q>.
ConfigureAddress(regs, pipe_num, address) ==
    [regs EXCEPT !.hstaddr[pipe_num] = address]

\* Pipe::init_n (pipe.rs 113-166).  in.cfgok is the CFGOK bit the hardware
\* reports after the allocation request.
InitN(regs, pipe_num, in, checks) ==
    LET r1 == Enable(regs, pipe_num)
        sz == PipeSize(in.ep_size, checks)
        r2 == [r1 EXCEPT !.hstpipcfg[pipe_num] =
                  [alloc |-> r1.hstpipcfg[pipe_num].alloc,
                   psize |-> PsizeField(sz.bits), ptoken |-> in.ep_dir,
                   ptype |-> in.ep_type, pepnum |-> in.ep_num,
                   intfrq |-> in.poll_freq, pbk |-> in.num_banks,
                   autosw |-> TRUE]]
        r3 == [r2 EXCEPT !.hstpipcfg[pipe_num].alloc = TRUE]
    IN  IF sz.panic
        THEN [ret |-> "PanicOverflow", regs |-> r1]
        ELSE IF ~in.cfgok
        THEN [ret |-> "InvalidConfiguration", regs |-> Disable(r3, pipe_num)]
        ELSE [ret |-> "Ok", regs |-> ConfigureAddress(r3, pipe_num, in.address)]

\* Pipe::alloc (pipe.rs 39-63): the scan from pipe_num on.
RECURSIVE AllocFrom(_, _, _, _)
AllocFrom(pipe_num, regs, in, checks) ==
    IF pipe_num >= MAX_PIPES
    THEN [ret |-> "OutOfPipes", pipe |-> 0, regs |-> regs]
    ELSE IF NoPenArm(pipe_num)
    THEN [ret |-> "PanicUnreachable", pipe |-> pipe_num, regs |-> regs]
    ELSE IF Enabled(regs, pipe_num)
    THEN AllocFrom(pipe_num + 1, regs, in, checks)
    ELSE LET i == InitN(regs, pipe_num, in, checks)
         IN  [ret |-> i.ret, pipe |-> pipe_num, regs |-> i.regs]

Alloc(regs, in, checks) == AllocFrom(1, regs, in, checks)

\* Pipe::free (pipe.rs 168-174).
Free(regs, pipe_num) ==
    LET r1 == Disable(regs, pipe_num)
        r2 == [r1 EXCEPT !.hstpipcfg[pipe_num].alloc = FALSE]
    IN  Disable(Enable(r2, pipe_num), pipe_num)

\* The arguments of alloc the model draws from, and the hardware's CFGOK.
AllocInputs ==
    [address : {1, 2}, ep_num : {1}, ep_type : {"BLK"}, ep_dir : {"IN"},
     ep_size : {4, 8, 64}, poll_freq : {0}, num_banks : {"_1_BANK"},
     cfgok : BOOLEAN]

\* A bulk IN endpoint of 64 bytes at address 1 that the hardware accepts.
PlainEndpoint ==
    [address |-> 1, ep_num |-> 1, ep_type |-> "BLK", ep_dir |-> "IN",
     ep_size |-> 64, poll_freq |-> 0, num_banks |-> "_1_BANK", cfgok |-> TRUE]

\* The registers after k successful alloc calls for PlainEndpoint.
RECURSIVE AfterAllocs(_)
AfterAllocs(k) ==
    IF k = 0 THEN RegsReset
    ELSE Alloc(AfterAllocs(k - 1), PlainEndpoint, FALSE).regs

PipeAlloc ==
    /\ halted = "running"
    /\ pipeOps < MaxPipeOps
    /\ \E in \in AllocInputs :
         LET a == Alloc(Regs, in, overflow_checks)
         IN  /\ hstpip' = a.regs.hstpip
             /\ hstpipcfg' = a.regs.hstpipcfg
             /\ hstaddr' = a.regs.hstaddr
             /\ halted' = IF a.ret \in {"PanicUnreachable", "PanicOverflow"}
                          THEN "panic" ELSE halted
             /\ live' = IF a.ret = "Ok"
                        THEN [live EXCEPT ![a.pipe] = live[a.pipe] + 1]
                        ELSE live
             /\ plast' = PipeObservation("alloc", in, a.ret, a.pipe, Regs)
    /\ pipeOps' = pipeOps + 1
    /\ UNCHANGED <<overflow_checks, host_state, events, devices, hstimr, last>>
    /\ UNCHANGED <<xfer, hstpipisr, hstpipimr, ram>>
    /\ UNCHANGED devVars
    /\ UNCHANGED histVars
    /\ UNCHANGED irqVars

PipeFree ==
    /\ halted = "running"
    /\ pipeOps < MaxPipeOps
    /\ \E p \in Pipes :
         /\ live[p] > 0
         /\ LET r == Free(Regs, p)
            IN  /\ hstpip' = r.hstpip
                /\ hstpipcfg' = r.hstpipcfg
                /\ hstaddr' = r.hstaddr
                /\ plast' = PipeObservation("free", NoArgs, "Ok", p, Regs)
         /\ live' = [live EXCEPT ![p] = live[p] - 1]
    /\ pipeOps' = pipeOps + 1
    /\ UNCHANGED <<overflow_checks, halted, host_state, events, devices, hstimr, last>>
    /\ UNCHANGED <<xfer, hstpipisr, hstpipimr, ram>>
    /\ UNCHANGED devVars
    /\ UNCHANGED histVars
    /\ UNCHANGED irqVars

\* SpecPipe starts after k pipes were allocated for PlainEndpoint, in a
\* build with or without overflow checks.
InitPipe ==
    /\ host_state = NoVbus
    /\ events = <<>>
    /\ devices = DeviceTable_new
    /\ hstimr = [dconnie |-> FALSE, ddiscie |-> FALSE]
    /\ halted = "running"
    /\ last = Observation("new", NoVbus, None, DeviceTable_new, <<>>, "none",
                          <<>>, 0, <<>>)
    /\ DevIdle
    /\ HistIdle
    /\ IrqIdle
    /\ overflow_checks \in BOOLEAN
    /\ \E k \in 0..(MAX_PIPES - 2) :
         /\ hstpip = AfterAllocs(k).hstpip
         /\ hstpipcfg = AfterAllocs(k).hstpipcfg
         /\ hstaddr = AfterAllocs(k).hstaddr
         /\ hstpipisr = RegsReset.hstpipisr
         /\ hstpipimr = RegsReset.hstpipimr
         /\ ram = RamReset
         /\ live = [p \in Pipes |-> IF 1 <= p /\ p <= k THEN 1 ELSE 0]
         /\ plast = PipeObservation("none", NoArgs, "none", 0, AfterAllocs(k))
    /\ pipeOps = 0
    /\ xfer = XferNone

NextPipe ==
    \/ PipeAlloc
    \/ PipeFree

SpecPipe == InitPipe /\ [][NextPipe]_vars

---------------------------------------------------------------------------
\* The data stage of a control transfer and the bulk/interrupt transfers
\* (SpecXfer).  UsbOtgHs's control_transfer, in_transfer and out_transfer
\* (mod.rs 461-495) hand the transfer to the pipe of the endpoint; the
\* stages are sent with Pipe::send and polled with
\* Pipe::is_transfer_complete, the token being repeated up to the NAK
\* limit.

\* The registers after send() programmed the token, cleared the flags
\* through HSTPIPICR and cleared fifocon and pfreeze through HSTPIPIDR.
Sent(regs, pipe_num, token_type) ==
    [regs EXCEPT !.hstpipcfg[pipe_num].ptoken = token_type,
                 !.hstpipisr[pipe_num] = PipeIsrReset,
                 !.hstpipimr[pipe_num] = PipeImrReset]

\* A send() that leaves the pipe disabled.
SendDisablesPipe(regs, pipe_num, token_type) ==
    [ret |-> "Ok", regs |-> Disable(Sent(regs, pipe_num, token_type), pipe_num)]

\* Pipe::send (pipe.rs 337-364): refuses a disabled pipe, otherwise sets the
\* token, clears the pipe's interrupt flags and unfreezes the pipe.  Its
\* enabled() has no arm for pipe 9.
Send(regs, pipe_num, token_type) ==
    IF NoPenArm(pipe_num)
    THEN [ret |-> "PanicUnreachable", regs |-> regs]
    ELSE IF ~Enabled(regs, pipe_num)
    THEN [ret |-> "InvalidOperation", regs |-> regs]
    ELSE [ret |-> "Ok", regs |-> Sent(regs, pipe_num, token_type)]

\* The values of HSTPIPISR and HSTPIPIMR.
PipeIsr ==
    [txstpi : BOOLEAN, rxini : BOOLEAN, txouti : BOOLEAN,
     shortpacketi : BOOLEAN, nakedi : BOOLEAN]

PipeImr == [pfreeze : BOOLEAN, fifocon : BOOLEAN]

\* The completion flag of a token in HSTPIPISR.
TokenFlag(isr, token_type) ==
    CASE token_type = "SETUP" -> isr.txstpi
      [] token_type = "IN" -> isr.rxini
      [] token_type = "OUT" -> isr.txouti

\* HSTPIPISR with the flag of the token cleared through HSTPIPICR.
FlagCleared(isr, token_type) ==
    CASE token_type = "SETUP" -> [isr EXCEPT !.txstpi = FALSE]
      [] token_type = "IN" -> [isr EXCEPT !.rxini = FALSE]
      [] token_type = "OUT" -> [isr EXCEPT !.txouti = FALSE]

\* HSTPIPISR after a send, when the hardware has raised (or not) the flag
\* of the token sent.
TokenRaised(token_type, raised) ==
    CASE token_type = "SETUP" -> [PipeIsrReset EXCEPT !.txstpi = raised]
      [] token_type = "IN" -> [PipeIsrReset EXCEPT !.rxini = raised]
      [] token_type = "OUT" -> [PipeIsrReset EXCEPT !.txouti = raised]

\* An is_transfer_complete() that reports completion and leaves the flag set.
IsTransferCompleteKeepsFlag(regs, pipe_num, token_type, freezes) ==
    [ret |-> TokenFlag(regs.hstpipisr[pipe_num], token_type), hang |-> FALSE,
     regs |-> regs]

\* Pipe::is_transfer_complete (pipe.rs 366-415).  With the token's flag set,
\* SETUP and OUT freeze the pipe (HSTPIPIER.pfreezes) and clear the flag; IN
\* waits until the hardware has frozen the pipe (`freezes`: it does so) and
\* then clears the flag.  With the flag clear nothing is written.
IsTransferComplete(regs, pipe_num, token_type, freezes) ==
    LET frozen  == [regs EXCEPT !.hstpipimr[pipe_num].pfreeze = TRUE]
        cleared == [frozen EXCEPT !.hstpipisr[pipe_num] =
                       FlagCleared(@, token_type)]
    IN  IF ~TokenFlag(regs.hstpipisr[pipe_num], token_type)
        THEN [ret |-> FALSE, hang |-> FALSE, regs |-> regs]
        ELSE IF token_type = "IN" /\ ~regs.hstpipimr[pipe_num].pfreeze
                /\ ~freezes
        THEN [ret |-> FALSE, hang |-> TRUE, regs |-> regs]
        ELSE [ret |-> TRUE, hang |-> FALSE, regs |-> cleared]

\* The default control endpoint of the device at `address`.
ControlEndpoint(address) ==
    [address |-> address, ep_num |-> 0, ep_type |-> "CTRL", ep_dir |-> "SETUP",
     ep_size |-> 64, poll_freq |-> 0, num_banks |-> "_1_BANK", cfgok |-> TRUE]

\* The setup stage was sent on pipe p and has completed; the data stage
\* with `token` begins.
XferStart ==
    /\ halted = "running"
    /\ xfer.stage \in {"idle", "done"}
    /\ \E p \in Pipes, token \in {"IN", "OUT"} :
         /\ live[p] > 0
         /\ LET s == Send(Regs, p, "SETUP")
            IN  /\ s.ret = "Ok"
                /\ hstpip' = s.regs.hstpip
                /\ hstpipcfg' = s.regs.hstpipcfg
                /\ hstaddr' = s.regs.hstaddr
                /\ hstpipisr' = s.regs.hstpipisr
                /\ hstpipimr' = s.regs.hstpipimr
                /\ xfer' = [kind |-> "control_transfer", stage |-> "data",
                            pipe |-> p, token |-> token, len |-> 0,
                            attempts |-> 0, ret |-> "none", bytes |-> 0,
                            pre |-> Regs]
    /\ UNCHANGED <<overflow_checks, live, pipeOps, plast, ram>>
    /\ UNCHANGED <<halted, host_state, events, devices, hstimr, last>>
    /\ UNCHANGED devVars
    /\ UNCHANGED histVars
    /\ UNCHANGED irqVars

\* in_transfer / out_transfer (mod.rs 477-495) begin on pipe p, the pipe
\* of the endpoint, with a buffer of `len` bytes: there is no setup stage,
\* the IN or OUT token is what gets repeated.
BulkStart ==
    /\ halted = "running"
    /\ xfer.stage \in {"idle", "done"}
    /\ \E p \in Pipes, token \in {"IN", "OUT"}, len \in 0..MaxBuf :
         /\ live[p] > 0
         /\ xfer' = [kind |-> IF token = "IN" THEN "in_transfer"
                              ELSE "out_transfer",
                     stage |-> "data", pipe |-> p, token |-> token,
                     len |-> len, attempts |-> 0, ret |-> "none",
                     bytes |-> 0, pre |-> Regs]
    /\ UNCHANGED <<hstpip, hstpipcfg, hstaddr, hstpipisr, hstpipimr, ram,
                   overflow_checks, live, pipeOps, plast>>
    /\ UNCHANGED <<halted, host_state, events, devices, hstimr, last>>
    /\ UNCHANGED devVars
    /\ UNCHANGED histVars
    /\ UNCHANGED irqVars

\* One attempt of the data stage: the token is sent and polled.
XferAttempt ==
    /\ halted = "running"
    /\ xfer.stage = "data"
    /\ xfer.attempts < NAK_LIMIT
    /\ \E raised \in BOOLEAN :
         LET s    == Send(Regs, xfer.pipe, xfer.token)
             hw   == IF s.ret = "Ok"
                     THEN [s.regs EXCEPT !.hstpipisr[xfer.pipe] =
                              TokenRaised(xfer.token, raised)]
                     ELSE s.regs
             c    == IsTransferComplete(hw, xfer.pipe, xfer.token, TRUE)
             done == c.ret
         IN  /\ hstpip' = c.regs.hstpip
             /\ hstpipcfg' = c.regs.hstpipcfg
             /\ hstaddr' = c.regs.hstaddr
             /\ hstpipisr' = c.regs.hstpipisr
             /\ hstpipimr' = c.regs.hstpipimr
             /\ xfer' = [xfer EXCEPT
                           !.attempts = @ + 1,
                           !.stage = IF s.ret # "Ok" \/ done
                                     THEN "done" ELSE "data",
                           !.ret = IF s.ret # "Ok" THEN "TransferError"
                                   ELSE IF done THEN "Ok" ELSE "none",
                           !.bytes = IF s.ret = "Ok" /\ done
                                     THEN xfer.len ELSE 0]
    /\ UNCHANGED <<overflow_checks, live, pipeOps, plast, ram>>
    /\ UNCHANGED <<halted, host_state, events, devices, hstimr, last>>
    /\ UNCHANGED devVars
    /\ UNCHANGED histVars
    /\ UNCHANGED irqVars

\* The NAK limit is exhausted: the transfer returns TransferError.
XferGiveUp ==
    /\ halted = "running"
    /\ xfer.stage = "data"
    /\ xfer.attempts >= NAK_LIMIT
    /\ xfer' = [xfer EXCEPT !.stage = "done", !.ret = "TransferError"]
    /\ UNCHANGED <<hstpip, hstpipcfg, hstaddr, hstpipisr, hstpipimr, ram,
                   overflow_checks, live, pipeOps, plast>>
    /\ UNCHANGED <<halted, host_state, events, devices, hstimr, last>>
    /\ UNCHANGED devVars
    /\ UNCHANGED histVars
    /\ UNCHANGED irqVars

\* SpecXfer starts with k plain pipes allocated and one more for the control
\* endpoint of a device.
InitXfer ==
    /\ host_state = AttachedRunning
    /\ events = <<>>
    /\ devices = DeviceTable_new
    /\ hstimr = [dconnie |-> FALSE, ddiscie |-> TRUE]
    /\ halted = "running"
    /\ last = Observation("new", NoVbus, None, DeviceTable_new, <<>>, "none",
                          <<>>, 0, <<>>)
    /\ DevIdle
    /\ HistIdle
    /\ IrqIdle
    /\ overflow_checks \in BOOLEAN
    /\ \E k \in 0..(MAX_PIPES - 3), address \in Slots :
         LET a == Alloc(AfterAllocs(k), ControlEndpoint(address),
                        overflow_checks)
         IN  /\ hstpip = a.regs.hstpip
             /\ hstpipcfg = a.regs.hstpipcfg
             /\ hstaddr = a.regs.hstaddr
             /\ hstpipisr = a.regs.hstpipisr
             /\ hstpipimr = a.regs.hstpipimr
             /\ ram = RamReset
             /\ live = [p \in Pipes |-> IF p = a.pipe THEN 1 ELSE 0]
             /\ plast = PipeObservation("alloc", ControlEndpoint(address),
                                        a.ret, a.pipe, AfterAllocs(k))
    /\ pipeOps = 0
    /\ xfer = XferNone

NextXfer ==
    \/ XferStart
    \/ BulkStart
    \/ XferAttempt
    \/ XferGiveUp

SpecXfer == InitXfer /\ [][NextXfer]_vars

---------------------------------------------------------------------------
\* The pipe size class (SpecSize): init_0 and init_n applied once to the
\* peripheral after reset, for every packet size.

\* Pipe::init_0 (pipe.rs 65-111) on the default control pipe.
Init0(regs, in, checks) ==
    LET r1 == Enable(regs, 0)
        sz == PipeSize(in.ep_size, checks)
        r2 == [r1 EXCEPT !.hstpipcfg[0] =
                  [alloc |-> r1.hstpipcfg[0].alloc,
                   psize |-> PsizeField(sz.bits), ptoken |-> "SETUP",
                   ptype |-> "CTRL", pepnum |-> 0, intfrq |-> 0,
                   pbk |-> "_1_BANK", autosw |-> FALSE]]
        r3 == [r2 EXCEPT !.hstpipcfg[0].alloc = TRUE]
    IN  IF in.ep_size < 8
        THEN [ret |-> "InvalidSize", regs |-> regs]
        ELSE IF Enabled(regs, 0)
        THEN [ret |-> "Ok", regs |-> regs]
        ELSE IF sz.panic
        THEN [ret |-> "PanicOverflow", regs |-> r1]
        ELSE IF ~in.cfgok
        THEN [ret |-> "InvalidConfiguration", regs |-> Disable(r3, 0)]
        ELSE [ret |-> "Ok", regs |-> ConfigureAddress(r3, 0, in.address)]

\* The packet sizes a pipe can be given: from the smallest init_0 accepts
\* to the largest the PSIZE field encodes.
PacketSizes == 8..1024

\* The arguments of the call SpecSize makes, and the hardware's CFGOK.
SizeInputs ==
    [address : {1}, ep_num : {0}, ep_type : {"CTRL"}, ep_dir : {"SETUP"},
     ep_size : PacketSizes, poll_freq : {0}, num_banks : {"_1_BANK"},
     cfgok : BOOLEAN]

PipeInit0 ==
    /\ halted = "running"
    /\ plast.op = "none"
    /\ LET i == Init0(Regs, plast.args, overflow_checks)
       IN  /\ hstpip' = i.regs.hstpip
           /\ hstpipcfg' = i.regs.hstpipcfg
           /\ hstaddr' = i.regs.hstaddr
           /\ halted' = IF i.ret = "PanicOverflow" THEN "panic" ELSE halted
           /\ plast' = PipeObservation("init_0", plast.args, i.ret, 0, Regs)
    /\ pipeOps' = pipeOps + 1
    /\ UNCHANGED <<overflow_checks, live, xfer, hstpipisr, hstpipimr, ram>>
    /\ UNCHANGED <<host_state, events, devices, hstimr, last>>
    /\ UNCHANGED devVars
    /\ UNCHANGED histVars
    /\ UNCHANGED irqVars

PipeInitN ==
    /\ halted = "running"
    /\ plast.op = "none"
    /\ LET i == InitN(Regs, 1, plast.args, overflow_checks)
       IN  /\ hstpip' = i.regs.hstpip
           /\ hstpipcfg' = i.regs.hstpipcfg
           /\ hstaddr' = i.regs.hstaddr
           /\ halted' = IF i.ret = "PanicOverflow" THEN "panic" ELSE halted
           /\ plast' = PipeObservation("init_n", plast.args, i.ret, 1, Regs)
    /\ pipeOps' = pipeOps + 1
    /\ UNCHANGED <<overflow_checks, live, xfer, hstpipisr, hstpipimr, ram>>
    /\ UNCHANGED <<host_state, events, devices, hstimr, last>>
    /\ UNCHANGED devVars
    /\ UNCHANGED histVars
    /\ UNCHANGED irqVars

\* SpecSize starts with the peripheral's registers after reset and the
\* arguments of the call to come, in a build with or without overflow
\* checks.
InitSize ==
    /\ host_state = NoVbus
    /\ events = <<>>
    /\ devices = DeviceTable_new
    /\ hstimr = [dconnie |-> FALSE, ddiscie |-> FALSE]
    /\ halted = "running"
    /\ last = Observation("new", NoVbus, None, DeviceTable_new, <<>>, "none",
                          <<>>, 0, <<>>)
    /\ DevIdle
    /\ HistIdle
    /\ IrqIdle
    /\ overflow_checks \in BOOLEAN
    /\ hstpip = RegsReset.hstpip
    /\ hstpipcfg = RegsReset.hstpipcfg
    /\ hstaddr = RegsReset.hstaddr
    /\ hstpipisr = RegsReset.hstpipisr
    /\ hstpipimr = RegsReset.hstpipimr
    /\ ram = RamReset
    /\ live = [p \in Pipes |-> 0]
    /\ pipeOps = 0
    /\ \E in \in SizeInputs :
         plast = PipeObservation("none", in, "none", 0, RegsReset)
    /\ xfer = XferNone

NextSize ==
    \/ PipeInit0
    \/ PipeInitN

SpecSize == InitSize /\ [][NextSize]_vars

---------------------------------------------------------------------------
\* One pipe operation on any state of a channel (SpecIo): send, write, read,
\* is_transfer_complete and configure_address.

\* Pipe::read (pipe.rs 300-314): buf.len() bytes of the RAM from byte
\* pipe_num on.
Read(mem, pipe_num, len) == [k \in 1..len |-> mem[pipe_num + k - 1]]

\* The RAM after buf was copied to the bytes from pipe_num on.
Written(mem, pipe_num, buf) ==
    [b \in DOMAIN mem |->
        IF pipe_num <= b /\ b < pipe_num + Len(buf)
        THEN buf[b - pipe_num + 1]
        ELSE mem[b]]

\* Pipe::write (pipe.rs 316-335): refuses a disabled pipe, otherwise copies
\* buf to the bytes of the RAM from byte pipe_num on.  Its enabled() has no
\* arm for pipe 9.
Write(regs, mem, pipe_num, buf) ==
    IF NoPenArm(pipe_num)
    THEN [ret |-> "PanicUnreachable", ram |-> mem]
    ELSE IF ~Enabled(regs, pipe_num)
    THEN [ret |-> "InvalidOperation", ram |-> mem]
    ELSE [ret |-> "Ok", ram |-> Written(mem, pipe_num, buf)]

Tokens == {"SETUP", "IN", "OUT"}

\* The buffers passed to write(): bytes that differ from the RAM's.
Bytes == {1, 2}
Bufs == UNION {[1..n -> Bytes] : n \in 1..MaxBuf}

\* The arguments of the call observed in plast, for the calls of SpecIo.
IoArgs(token, buf, address, freezes) ==
    [token |-> token, buf |-> buf, address |-> address, freezes |-> freezes]

NoIoArgs == IoArgs("SETUP", <<>>, 0, TRUE)

\* The registers and the RAM after the call, and what it returned.
IoDone(op, args, ret, regs, mem) ==
    /\ hstpip' = regs.hstpip
    /\ hstpipcfg' = regs.hstpipcfg
    /\ hstaddr' = regs.hstaddr
    /\ hstpipisr' = regs.hstpipisr
    /\ hstpipimr' = regs.hstpipimr
    /\ ram' = mem
    /\ halted' = IF ret = "PanicUnreachable" THEN "panic"
                 ELSE IF ret = "Hang" THEN "hang" ELSE halted
    /\ plast' = PipeObservation(op, args, ret, plast.pipe, Regs)
    /\ pipeOps' = pipeOps + 1
    /\ UNCHANGED <<overflow_checks, live, xfer>>
    /\ UNCHANGED <<host_state, events, devices, hstimr, last>>
    /\ UNCHANGED devVars
    /\ UNCHANGED histVars
    /\ UNCHANGED irqVars

IoReady == halted = "running" /\ plast.op = "none"

PipeSend ==
    /\ IoReady
    /\ \E token \in Tokens :
         LET s == Send(Regs, plast.pipe, token)
         IN  IoDone("send", IoArgs(token, <<>>, 0, TRUE), s.ret, s.regs, ram)

PipeWrite ==
    /\ IoReady
    /\ \E buf \in Bufs :
         LET w == Write(Regs, ram, plast.pipe, buf)
         IN  IoDone("write", IoArgs("SETUP", buf, 0, TRUE), w.ret, Regs, w.ram)

PipeRead ==
    /\ IoReady
    /\ \E len \in 1..MaxBuf :
         IoDone("read", IoArgs("SETUP", Read(ram, plast.pipe, len), 0, TRUE),
                "Ok", Regs, ram)

PipePoll ==
    /\ IoReady
    /\ \E token \in Tokens, freezes \in BOOLEAN :
         LET c == IsTransferComplete(Regs, plast.pipe, token, freezes)
         IN  IoDone("is_transfer_complete", IoArgs(token, <<>>, 0, freezes),
                    IF c.hang THEN "Hang" ELSE IF c.ret THEN "true" ELSE "false",
                    c.regs, ram)

PipeConfigureAddress ==
    /\ IoReady
    /\ \E address \in Slots :
         IoDone("configure_address", IoArgs("SETUP", <<>>, address, TRUE), "Ok",
                ConfigureAddress(Regs, plast.pipe, address), ram)

\* Pipe::enabled, enable and disable (pipe.rs 176-228) called on the handle:
\* the match of each ends in unreachable!() for a pipe without an arm.
PipeEnabled ==
    /\ IoReady
    /\ IoDone("enabled", NoIoArgs,
              IF NoPenArm(plast.pipe) THEN "PanicUnreachable"
              ELSE IF Enabled(Regs, plast.pipe) THEN "true" ELSE "false",
              Regs, ram)

PipeEnable ==
    /\ IoReady
    /\ IF NoPenArm(plast.pipe)
       THEN IoDone("enable", NoIoArgs, "PanicUnreachable", Regs, ram)
       ELSE IoDone("enable", NoIoArgs, "Ok", Enable(Regs, plast.pipe), ram)

PipeDisable ==
    /\ IoReady
    /\ IF NoPenArm(plast.pipe)
       THEN IoDone("disable", NoIoArgs, "PanicUnreachable", Regs, ram)
       ELSE IoDone("disable", NoIoArgs, "Ok", Disable(Regs, plast.pipe), ram)

\* Pipe::reset (pipe.rs 230-252): resets the data toggle and clears the
\* pipe's reset bit; neither the enable bit nor the configuration changes.
PipeReset ==
    /\ IoReady
    /\ IoDone("reset", NoIoArgs,
              IF PipeResetPanics(plast.pipe) THEN "PanicUnreachable" ELSE "Ok",
              Regs, ram)

\* The pipe numbers passed to Pipe::get: those of the hardware's pipes and
\* some beyond.
PipeNums == 0..(MAX_PIPES + 1)

\* Pipe::get (pipe.rs 31-37).
Get(pipe_num) ==
    IF pipe_num < MAX_PIPES THEN "Ok" ELSE "OutOfRange"

\* SpecIo starts with the handle Pipe::get returned for one channel in any
\* state (enabled or not, any flags), the other channels disabled and
\* holding distinct addresses; or with no handle, the pipe number having
\* been refused.
InitIo ==
    /\ host_state = NoVbus
    /\ events = <<>>
    /\ devices = DeviceTable_new
    /\ hstimr = [dconnie |-> FALSE, ddiscie |-> FALSE]
    /\ halted = "running"
    /\ last = Observation("new", NoVbus, None, DeviceTable_new, <<>>, "none",
                          <<>>, 0, <<>>)
    /\ DevIdle
    /\ HistIdle
    /\ IrqIdle
    /\ overflow_checks = FALSE
    /\ live = [p \in Pipes |-> 0]
    /\ pipeOps = 0
    /\ xfer = XferNone
    /\ ram = RamReset
    /\ hstpipcfg = RegsReset.hstpipcfg
    /\ hstaddr = [p \in Pipes |-> MAX_PIPES + p]
    /\ \E p \in PipeNums, en \in BOOLEAN, isr \in PipeIsr, imr \in PipeImr :
         /\ Get(p) # "Ok" => (~en /\ isr = PipeIsrReset /\ imr = PipeImrReset)
         /\ hstpip = [q \in Pipes |-> q = p /\ en /\ ~NoPenArm(p)]
         /\ hstpipisr = [q \in Pipes |-> IF q = p THEN isr ELSE PipeIsrReset]
         /\ hstpipimr = [q \in Pipes |-> IF q = p THEN imr ELSE PipeImrReset]
         /\ plast = PipeObservation(IF Get(p) = "Ok" THEN "none" ELSE "get",
                                    NoIoArgs,
                                    IF Get(p) = "Ok" THEN "none" ELSE Get(p), p,
                                    [RegsReset EXCEPT !.hstpip = hstpip,
                                                      !.hstaddr = hstaddr,
                                                      !.hstpipisr = hstpipisr,
                                                      !.hstpipimr = hstpipimr])

NextIo ==
    \/ PipeSend
    \/ PipeWrite
    \/ PipeRead
    \/ PipePoll
    \/ PipeConfigureAddress
    \/ PipeEnabled
    \/ PipeEnable
    \/ PipeDisable
    \/ PipeReset

SpecIo == InitIo /\ [][NextIo]_vars

---------------------------------------------------------------------------
\* Properties of the host state machine (Spec).

\* The task() call observed in `last` handled an event.
HandledEvent == last.op = "task" /\ last.popped # None
Why == Unwrap(last.popped).why
Attached == {AttachedConfiguring, AttachedRunning, AttachedError}

\* The (state, event) pairs of the transition table.
Listed(pre, why) ==
    \/ why = "vbus_present" /\ pre = NoVbus
    \/ why = "connect" /\ pre = Detached
    \/ why = "disconnect" /\ pre \in Attached
    \/ why = "vbus_lost"

\* Enumeration outcome as the table names it.
EnumOutcome == IF last.enum = "Ok" THEN AttachedRunning ELSE AttachedError

\* C1: for every (state, event) pair of the transition table the host state
\* after the task() call that handles the event is the state the table
\* gives: Detached for Vbus present in NoVbus and for a disconnect in
\* Attached(*), NoVbus for Vbus lost, and for a connect in Detached the state
\* goes to Attached(Configuring) and from there, in the same call, to
\* Attached(Running) on enumeration success and Attached(Error) on failure.
C1_TransitionTable ==
    (HandledEvent /\ Listed(last.pre, Why)) =>
        CASE Why = "connect" ->
                /\ last.passed = <<AttachedConfiguring, EnumOutcome>>
                /\ host_state = EnumOutcome
          [] Why \in {"vbus_present", "disconnect"} ->
                /\ last.passed = <<Detached>>
                /\ host_state = Detached
          [] Why = "vbus_lost" ->
                /\ last.passed = <<NoVbus>>
                /\ host_state = NoVbus

C1_Witness ==
    /\ HandledEvent
    /\ Why = "connect"
    /\ last.pre = Detached
    /\ last.enum = "DriverError"
    /\ host_state = AttachedError

\* C2 as claimed: an event the transition table does not list for the
\* current host state leaves the host state unchanged.
C2_UnlistedEventLeavesState ==
    (HandledEvent /\ ~Listed(last.pre, Why)) => host_state = last.pre

\* C2 as amended: task() sets the host state to the state the event names,
\* whatever the current state is (and enumerates when that state is
\* Attached(Configuring)); the state is kept only when no event is pending.
C2_EventSetsState ==
    last.op = "task" =>
        IF last.popped = None
        THEN (last.pre # AttachedConfiguring => host_state = last.pre)
        ELSE /\ Head(last.passed) = Unwrap(last.popped).state
             /\ Unwrap(last.popped).state # AttachedConfiguring
                    => host_state = Unwrap(last.popped).state
             /\ Unwrap(last.popped).state = AttachedConfiguring
                    => host_state = EnumOutcome

C2_Witness ==
    /\ HandledEvent
    /\ Why = "vbus_error"
    /\ last.pre = AttachedRunning
    /\ host_state = Detached

CallsNamed(name) == {i \in 1..Len(last.calls) : last.calls[i].call = name}

\* C8: every address the Device Table hands out is in 1..M; address 0 is
\* never assigned to a slot and never passed to SetAddress or add_device.
C8_AddressesInOneToM ==
    /\ \A i \in Slots :
         devices[i] # None => Unwrap(devices[i]) \in 1..MAX_DEVICES
    /\ \A i \in CallsNamed("SetAddress") \cup CallsNamed("add_device") :
         last.calls[i].addr \in 1..MAX_DEVICES

\* C9: scenario A.  With an empty Device Table, a full-speed link, every
\* control transfer succeeding and a driver that wants the device and adds
\* it, handling the attach event takes the state through
\* Attached(Configuring), assigns address 1, calls add_device(descriptor, 1)
\* exactly once and ends in Attached(Running).
C9_ScenarioA ==
    (/\ HandledEvent
     /\ Why = "connect"
     /\ last.preDevices = DeviceTable_new
     /\ last.mps = 64
     /\ last.enum = "Ok"
     /\ CallsNamed("add_device") # {})
    =>
    (/\ last.passed = <<AttachedConfiguring, AttachedRunning>>
     /\ host_state = AttachedRunning
     /\ Cardinality(CallsNamed("add_device")) = 1
     /\ \A i \in CallsNamed("add_device") \cup CallsNamed("SetAddress") :
          last.calls[i].addr = 1
     /\ \E i \in Slots : devices[i] = Some(1)
     /\ Cardinality(Occupied(devices)) = 1)

\* The task() call observed in `last` ran configure_dev on a full table.
EnumeratedOnFullTable ==
    /\ last.op = "task"
    /\ last.enum # "none"
    /\ Occupied(last.preDevices) = Slots

NoPipeTouched ==
    /\ hstpip = RegsReset.hstpip
    /\ \A p \in Pipes : ~hstpipcfg[p].alloc

\* C10 as claimed: scenario B.  When enumeration runs with all M device
\* slots occupied it aborts with OutOfDevices, the state becomes
\* Attached(Error), no SetAddress is issued, no driver is offered the device
\* and the Device Table and the allocated pipes are as before.
C10_ScenarioB_AsClaimed ==
    EnumeratedOnFullTable =>
        /\ last.enum = "OutOfDevices"
        /\ host_state = AttachedError
        /\ CallsNamed("SetAddress") = {}
        /\ CallsNamed("want_device") \cup CallsNamed("add_device") = {}
        /\ devices = last.preDevices
        /\ NoPipeTouched

\* C10 as amended: the same, with OutOfDevices the error when the
\* GetDescriptor transfer before the slot allocation succeeded; when that
\* transfer fails enumeration aborts earlier, with TransferError.
C10_ScenarioB ==
    EnumeratedOnFullTable =>
        /\ last.enum \in {"OutOfDevices", "TransferError"}
        /\ last.calls = <<Call("GetDescriptor", 0, 0)>>
        /\ host_state = AttachedError
        /\ last.passed[Len(last.passed)] = AttachedError
        /\ CallsNamed("SetAddress") = {}
        /\ CallsNamed("want_device") \cup CallsNamed("add_device") = {}
        /\ devices = last.preDevices
        /\ NoPipeTouched

C10_Witness ==
    /\ EnumeratedOnFullTable
    /\ last.enum = "OutOfDevices"
    /\ host_state = AttachedError

\* The drivers whose tick returned Permanent in the task() call observed.
PermanentFrom == {d \in DOMAIN ticks : ticks[d].kind = "Permanent"}
RemoveCalls(d) == {i \in CallsNamed("remove_device") : last.calls[i].drv = d}

C12_DisconnectWhileAttached ==
    (HandledEvent /\ Why = "disconnect" /\ last.pre \in Attached) =>
        /\ host_state = Detached
        /\ last.passed = <<Detached>>
        /\ last.enum = "none"
        /\ last.calls = <<>>
        /\ ticks = <<>>
        /\ devices = last.preDevices

C12_Witness ==
    /\ HandledEvent
    /\ Why = "disconnect"
    /\ last.pre = AttachedError
    /\ host_state = Detached
    /\ Occupied(devices) # {}

\* C13: a device slot is destroyed when its device disconnects.  After a
\* device that was assigned an address disconnects and task() has handled the
\* disconnect, the Device Table slot of that address is free (so that
\* attach / enumerate / disconnect cycles of one device never use up the M
\* slots).
C13_SlotFreedOnDisconnect ==
    [][(/\ last'.op = "task"
        /\ last'.popped # None
        /\ Unwrap(last'.popped).why = "disconnect"
        /\ assigned # None)
       => devices'[Unwrap(assigned)] = None]_vars

\* C14: a device slot is occupied only for a device whose address
\* assignment succeeded.  If enumeration fails after the slot was taken (the
\* SetAddress transfer fails, or the accepting driver's add_device returns an
\* error), the slot taken for it is free again when the state becomes
\* Attached(Error).
C14_SlotFreedOnFailedEnumeration ==
    (/\ last.op = "task"
     /\ last.enum \in {"TransferError", "DriverError"}
     /\ CallsNamed("SetAddress") # {}
     /\ host_state = AttachedError)
    => devices = last.preDevices

---------------------------------------------------------------------------
\* Properties of the Event Channel (Spec).  `events` holds the unread entries
\* in the order they were pushed: the handler's pushes go to the end.

C16_LastObservationWins ==
    (last.op = "task" /\ events = <<>> /\ observed # None) =>
        IF Unwrap(observed).state = AttachedConfiguring
        THEN /\ host_state \in {AttachedRunning, AttachedError}
             /\ last.popped # None =>
                   (last.popped = observed /\ host_state = EnumOutcome)
        ELSE /\ host_state = Unwrap(observed).state
             /\ last.popped # None => last.popped = observed

\* The channel was drained and the last of two different pending
\* observations decided the state.
C16_Witness ==
    /\ HandledEvent
    /\ events = <<>>
    /\ last.popped = observed
    /\ Why = "vbus_lost"
    /\ last.pre = AttachedError
    /\ host_state = NoVbus

\* C17: each task() call removes at most one entry from the Event Channel,
\* however many are pending and whichever state branch then runs.
C17_TaskShiftsAtMostOne ==
    [][last'.op = "task" =>
          /\ Len(events') >= Len(events) - 1
          /\ \/ events' = events
             \/ events # <<>> /\ events' = Tail(events)]_vars

\* A task() call that enumerated and left an entry pending.
C17_Witness ==
    /\ HandledEvent
    /\ last.enum # "none"
    /\ events # <<>>

\* C20: the host state is never written by the interrupt handler.  Under
\* every interleaving of handler invocations with task() and reset(), an
\* invocation changes only the Event Channel and the peripheral's registers
\* (here the interrupt mask), and the host state changes only inside task()
\* or reset().
C20_HandlerLeavesHostState ==
    [][/\ last'.op = "handler" =>
            /\ host_state' = host_state
            /\ devices' = devices
       /\ host_state' # host_state => last'.op \in {"task", "reset"}]_vars

\* The handler has observed a disconnect and the host state is still the
\* one task() left.
C20_Witness ==
    /\ last.op = "handler"
    /\ Len(last.pushed) = 1
    /\ last.pushed[1].why = "disconnect"
    /\ events = last.pushed
    /\ host_state = AttachedRunning
    /\ hstimr.dconnie

\* C21: reset() called from any reachable state completes without a panic
\* or an unreachable branch, having reset every pipe 0..MAX_PIPES-1, with
\* connect detection enabled and the host state equal to NoVbus.
C21_ResetCompletes ==
    last.op = "reset" =>
        /\ halted = "running"
        /\ host_state = NoVbus
        /\ hstimr.dconnie

\* The state task() matched on in the call observed: the state of the
\* event it shifted, or the state it had when no event was pending.
TaskMatched ==
    IF last.popped = None THEN last.pre ELSE Unwrap(last.popped).state

IsTick(c) == c.call = "tick"

\* The tick calls of the task() call observed, in call order.
TickCalls == SelectSeq(last.calls, IsTick)

\* C23: when task() runs its match in Attached(Running) it ticks every
\* registered driver exactly once, in registration order; in every other
\* host state a task() call ticks no driver.
C23_TicksEveryDriverOnce ==
    last.op = "task" =>
        IF TaskMatched = AttachedRunning
        THEN TickCalls = [d \in Drivers |-> Call("tick", d, 0)]
        ELSE TickCalls = <<>>

\* The drivers whose tick returned Transient in the task() call observed.
TransientFrom == {d \in DOMAIN ticks : ticks[d].kind = "Transient"}

\* C24: a Transient failure returned from a driver's tick changes nothing
\* in the host: remove_device is not invoked for it, the host state stays
\* Attached(Running) and, no other driver having failed permanently in that
\* call, the Device Table is unchanged.
C24_TransientChangesNothing ==
    (last.op = "task" /\ TransientFrom # {}) =>
        /\ \A d \in TransientFrom : RemoveCalls(d) = {}
        /\ host_state = AttachedRunning
        /\ PermanentFrom = {} =>
              /\ devices = last.preDevices
              /\ CallsNamed("remove_device") = {}
              /\ halted = "running"

\* Every driver's tick failed transiently while a device was in the table.
C24_Witness ==
    /\ last.op = "task"
    /\ Len(ticks) = NumDrivers
    /\ \A d \in Drivers : ticks[d] = DriverTransient
    /\ Occupied(last.preDevices) # {}
    /\ devices = last.preDevices
    /\ host_state = AttachedRunning

\* The operation observed in `last` began in Attached(Error).
BeganInError ==
    /\ last.op \in {"task", "handler"}
    /\ last.pre = AttachedError

\* C26 as claimed: once the host state is Attached(Error) it stays
\* Attached(Error), with no enumeration retried and no driver ticked, until
\* task() handles a disconnect or Vbus-lost event (or reset() is called).
C26_ErrorUntilDisconnect ==
    (BeganInError /\ ~(HandledEvent /\ Why \in {"disconnect", "vbus_lost"})) =>
        /\ host_state = AttachedError
        /\ last.enum = "none"
        /\ last.calls = <<>>

\* C26 as amended: Attached(Error) is left by the first event task() handles,
\* whichever its cause; every event that can be pending then names Detached
\* or NoVbus, so no enumeration is retried.  With no event pending task()
\* does nothing and the state stays Attached(Error).
C26_ErrorUntilEvent ==
    BeganInError =>
        /\ last.enum = "none"
        /\ last.calls = <<>>
        /\ devices = last.preDevices
        /\ IF HandledEvent
           THEN /\ host_state = Unwrap(last.popped).state
                /\ host_state \in {Detached, NoVbus}
           ELSE host_state = AttachedError

\* task() left Attached(Error) on a Vbus error event.
C26_Witness ==
    /\ BeganInError
    /\ HandledEvent
    /\ Why = "vbus_error"
    /\ host_state = Detached

\* The task() call observed in `last` ran configure_dev.
Enumerated == last.op = "task" /\ last.enum # "none"

\* The slots the call observed took from the Device Table.
SlotsTaken == {s \in Slots : last.preDevices[s] = None /\ devices[s] # None}

\* C27: enumeration performs GetDescriptor(Device) at address 0, then the
\* device-slot allocation, then SetAddress, then the driver offering; a step
\* that fails stops it, so that no later step runs: no slot is taken if
\* GetDescriptor fails, no SetAddress is issued if no slot is free, and no
\* driver is queried if SetAddress fails.
C27_EnumerationOrder ==
    Enumerated =>
        /\ last.calls[1] = Call("GetDescriptor", 0, 0)
        /\ CallsNamed("GetDescriptor") = {1}
        /\ CallsNamed("SetAddress") \subseteq {2}
        /\ \A i \in CallsNamed("want_device") \cup CallsNamed("add_device") :
              i > 2 /\ CallsNamed("SetAddress") = {2}
        /\ CallsNamed("SetAddress") = {2} =>
              SlotsTaken = {last.calls[2].addr}
        /\ CallsNamed("SetAddress") = {} =>
              /\ SlotsTaken = {}
              /\ devices = last.preDevices
              /\ last.enum \in {"TransferError", "OutOfDevices"}
        /\ last.enum = "OutOfDevices" =>
              /\ Occupied(last.preDevices) = Slots
              /\ Len(last.calls) = 1
        /\ last.enum = "TransferError" =>
              /\ Len(last.calls) \in {1, 2}
              /\ CallsNamed("want_device") = {}
        /\ last.enum \in {"Ok", "DriverError"} =>
              CallsNamed("SetAddress") = {2}

\* SetAddress failed after the slot was taken: no driver was queried.
C27_Witness ==
    /\ Enumerated
    /\ last.enum = "TransferError"
    /\ Len(last.calls) = 2
    /\ last.calls[2] = Call("SetAddress", 0, 1)
    /\ SlotsTaken = {1}
    /\ CallsNamed("want_device") = {}

IsWant(c) == c.call = "want_device"

\* The want_device calls of the task() call observed, in call order.
WantCalls == SelectSeq(last.calls, IsWant)

\* C28: during driver offering the drivers are queried in registration
\* order; only the first driver whose want_device returns true receives
\* add_device, exactly once, with the address set on the device; no driver
\* after it is queried, and no driver whose want_device returned false
\* receives add_device.
C28_FirstAcceptingDriverOnly ==
    (Enumerated /\ WantCalls # <<>>) =>
        LET n == Len(WantCalls)
        IN  /\ \A i \in 1..n : WantCalls[i].drv = i
            /\ \A i \in 1..(n - 1) : ~WantCalls[i].ret
            /\ n < NumDrivers => WantCalls[n].ret
            /\ Cardinality(CallsNamed("add_device")) =
                  (IF WantCalls[n].ret THEN 1 ELSE 0)
            /\ \A i \in CallsNamed("add_device") :
                  /\ i = Len(last.calls)
                  /\ last.calls[i - 1] = WantDevice(n, TRUE)
                  /\ last.calls[i] = Call("add_device", n, last.calls[2].addr)

\* The first driver declined and the second took the device.
C28_Witness ==
    /\ Enumerated
    /\ Len(WantCalls) = NumDrivers
    /\ ~WantCalls[1].ret
    /\ WantCalls[NumDrivers].ret
    /\ CallsNamed("add_device") = {Len(last.calls)}
    /\ last.calls[Len(last.calls)].drv = NumDrivers
    /\ last.enum = "Ok"

\* C29: when no registered driver accepts the device, enumeration completes
\* without error: the device keeps the address set on it and its slot stays
\* occupied, no add_device is called, and the host state becomes
\* Attached(Running), not Attached(Error).
C29_UndrivenDeviceIsNoError ==
    (/\ Enumerated
     /\ Len(WantCalls) = NumDrivers
     /\ \A i \in 1..NumDrivers : ~WantCalls[i].ret)
    =>
    (/\ last.enum = "Ok"
     /\ host_state = AttachedRunning
     /\ CallsNamed("add_device") = {}
     /\ SlotsTaken = {last.calls[2].addr}
     /\ devices[last.calls[2].addr] = Some(last.calls[2].addr))

\* Every driver declined the device that was given address 1.
C29_Witness ==
    /\ Enumerated
    /\ Len(WantCalls) = NumDrivers
    /\ \A i \in 1..NumDrivers : ~WantCalls[i].ret
    /\ last.calls[2] = Call("SetAddress", 0, 1)
    /\ devices[1] = Some(1)
    /\ host_state = AttachedRunning

\* The interrupt mask as the disconnect branch of the handler leaves it
\* (mod.rs 118-137): connect detection on, disconnect detection off.  The
\* mask changes only in the two branches of the handler and in reset().
DisconnectStands == hstimr.dconnie /\ ~hstimr.ddiscie

\* The handler invocation of this step pushed an observation of `why`.
HandlerPushed(why) ==
    /\ last'.op = "handler"
    /\ \E i \in 1..Len(last'.pushed) : last'.pushed[i].why = why

\* A disconnect observation is pending and no connect observation is queued
\* behind it.
DisconnectPending(q) ==
    \E i \in 1..Len(q) :
       /\ q[i] = Event(Detached, "disconnect")
       /\ \A j \in (i + 1)..Len(q) : q[j].state \in {Detached, NoVbus}

\* C38: a disconnect observed by the interrupt handler is never lost.  Its
\* invocation queues the observation and leaves the mask as
\* DisconnectStands, which only a later connect observation (or reset, or a
\* panic that stops the program) ends;
\* task() takes the queued observations in order, one per call, and once the
\* Event Channel is empty with no new connect the host state is Detached or
\* NoVbus, not Attached(Running).
C38_DisconnectNeverLost ==
    /\ []((DisconnectStands /\ events = <<>> /\ halted = "running") =>
             host_state \in {Detached, NoVbus})
    /\ [][/\ (HandlerPushed("disconnect") /\ halted' = "running") =>
                /\ DisconnectStands'
                /\ DisconnectPending(events')
          /\ (DisconnectStands /\ ~DisconnectStands') =>
                \/ HandlerPushed("connect")
                \/ last'.op = "reset"
                \/ halted' = "panic"
          /\ (DisconnectPending(events) /\ ~DisconnectPending(events')) =>
                \/ HandlerPushed("connect")
                \/ last'.op = "reset"
                \/ halted' = "panic"
                \/ /\ last'.op = "task"
                   /\ last'.popped = Some(Event(Detached, "disconnect"))
                   /\ host_state' = Detached
                   /\ events' = Tail(events)
          /\ (last'.op = "task" /\ DisconnectStands /\ events' = <<>>) =>
                host_state' \in {Detached, NoVbus}]_vars

\* The device was unplugged before its enumeration was over: task()
\* enumerated it with the disconnect pending, took the disconnect on the next
\* call and the channel is empty.
C38_Witness ==
    /\ HandledEvent
    /\ Why = "disconnect"
    /\ last.pre = AttachedRunning
    /\ host_state = Detached
    /\ events = <<>>
    /\ DisconnectStands
    /\ Occupied(devices) # {}

---------------------------------------------------------------------------
\* Properties of the handler, step by step (SpecIrq, SpecIrqFair).

\* The running invocation is at a push.
AtPush ==
    /\ halted = "running"
    /\ hsteps # <<>>
    /\ Head(hsteps).op = "push"

\* C18: push on the Event Channel never blocks.  When the channel is full
\* the push fails loudly (the handler's unwrap panics) and no entry is
\* dropped or overwritten; when it is not full the push succeeds, the entry
\* goes behind the pending ones, which are kept, and the pending count grows
\* by one.
C18_PushGrowsOrPanics ==
    /\ [](AtPush => ENABLED <<IrqStep>>_vars)
    /\ [][(AtPush /\ sr' = sr) =>
             IF Len(events) < EventCapacity
             THEN /\ events' = Append(events, Head(hsteps).ev)
                  /\ Len(events') = Len(events) + 1
                  /\ halted' = "running"
                  /\ hsteps' = Tail(hsteps)
             ELSE /\ events' = events
                  /\ halted' = "panic"]_vars

\* A push on the full channel has panicked and the entries are in place.
C18_Witness ==
    /\ halted = "panic"
    /\ hsteps # <<>>
    /\ Head(hsteps).op = "push"
    /\ Len(events) = EventCapacity
    /\ observed = Some(events[Len(events)])
    /\ Head(hsteps).ev # events[Len(events)]

\* C19: every invocation of the handler terminates, provided the hardware
\* eventually reports the USB clock as usable: an invocation that starts
\* while SR.clkusable is clear returns once the bit is set.  (An invocation
\* that ends in the panic of a push is not one that fails to terminate.)
C19_HandlerTerminates ==
    (hsteps # <<>>) ~> (hsteps = <<>> \/ halted = "panic")

---------------------------------------------------------------------------
\* Properties of the DeviceTable (SpecDev).

\* C6: from an empty table, M+1 consecutive next() calls with no remove
\* succeed M times with pairwise distinct addresses and give None on the
\* (M+1)-th call, which leaves the table unchanged.
C6_NextFillsThenNone ==
    /\ noRemove =>
         \A i \in 1..Len(nextRun) :
            /\ i <= MAX_DEVICES =>
                 /\ nextRun[i] # None
                 /\ \A j \in 1..(i - 1) : nextRun[j] # nextRun[i]
            /\ i > MAX_DEVICES => nextRun[i] = None
    /\ (dlast.op = "next" /\ dlast.ret = None) => devices = dlast.pre

C6_Witness ==
    /\ noRemove
    /\ Len(nextRun) = MAX_DEVICES + 1
    /\ dlast.op = "next"
    /\ dlast.ret = None

\* The next() observed in `dlast` directly followed a remove() of an
\* occupied address.
NextAfterRemove ==
    /\ dlast.op = "next"
    /\ dlast.prev.op = "remove"
    /\ dlast.prev.ret # None

\* C7: after remove(a) of an occupied address a the next call to next()
\* succeeds and returns the lowest-numbered free address; on a previously
\* full table that is a.
C7_NextReusesLowestFree ==
    NextAfterRemove =>
        /\ \E a \in Slots :
             /\ dlast.ret = Some(a)
             /\ dlast.pre[a] = None
             /\ \A b \in Slots : b < a => dlast.pre[b] # None
             /\ devices[a] # None
        /\ Occupied(dlast.prev.pre) = Slots => dlast.ret = Some(dlast.prev.arg)

C7_Witness ==
    /\ NextAfterRemove
    /\ Occupied(dlast.prev.pre) # Slots
    /\ dlast.ret = Some(1)
    /\ dlast.pre[3] = None

\* C25: remove(addr) on an address that is not occupied is a no-op: it
\* returns None and leaves the table unchanged, for every address a caller
\* can pass (the u8 of a driver's Permanent failure included).
C25_RemoveUnoccupiedIsNoOp ==
    (dlast.op = "remove" /\ dlast.arg \notin Occupied(dlast.pre)) =>
        /\ dlast.ret = None
        /\ devices = dlast.pre
        /\ halted = "running"

---------------------------------------------------------------------------
\* Properties of the pipe manager (SpecPipe).

\* C3: no two live allocations share a channel index, and every live index
\* is a channel below MAX_PIPES that alloc may return.
C3_LivePipesDistinct ==
    /\ \A p \in Pipes : live[p] <= 1
    /\ \A p \in Pipes : live[p] > 0 => (1 <= p /\ p < MAX_PIPES /\ hstpip[p])
    /\ (plast.op = "alloc" /\ plast.ret = "Ok") =>
          (~plast.pre.hstpip[plast.pipe] /\ plast.pipe < MAX_PIPES)

C3_Witness ==
    /\ plast.op = "alloc"
    /\ plast.ret = "Ok"
    /\ plast.pipe = 2
    /\ live[1] = 1 /\ live[2] = 1 /\ live[3] = 1

AllocatableAllEnabled(regs) == \A p \in 1..(MAX_PIPES - 1) : regs.hstpip[p]

\* No channel that has a pipe-enable arm is disabled.
NoChannelLeft(regs) ==
    \A p \in 1..(MAX_PIPES - 1) : NoPenArm(p) \/ regs.hstpip[p]

\* C4: when every allocatable channel is already enabled, allocate returns
\* OutOfPipes; it does not panic or reach an unreachable branch while
\* scanning the channels.
C4_ExhaustedReturnsOutOfPipes ==
    plast.op = "alloc" =>
        /\ plast.ret # "PanicUnreachable"
        /\ (AllocatableAllEnabled(plast.pre) \/ NoChannelLeft(plast.pre))
              => plast.ret = "OutOfPipes"

\* C5: allocate with a max_packet_size below the smallest size class (8
\* bytes) returns InvalidSize and leaves every pipe register as it was.
C5_SmallSizeRejected ==
    (plast.op = "alloc" /\ plast.args.ep_size < 8) =>
        /\ plast.ret = "InvalidSize"
        /\ Regs = plast.pre

\* The lowest-numbered disabled channel among those alloc scans.
DisabledChannels(regs) == {p \in 1..(MAX_PIPES - 1) : ~regs.hstpip[p]}
LowestDisabled(regs) ==
    CHOOSE p \in DisabledChannels(regs) :
        \A q \in DisabledChannels(regs) : p <= q

\* The alloc observed in `plast` got past the configuration of its channel.
AllocConfigured ==
    /\ plast.op = "alloc"
    /\ plast.ret \notin {"InvalidConfiguration", "PanicOverflow"}

\* C31: free(pipe) leaves the channel disabled with its allocation bit
\* clear, so that a following allocate can return that channel; allocate
\* always returns the lowest-numbered disabled channel in 1..MAX_PIPES-1
\* and never channel 0.
C31_FreeThenAllocLowest ==
    /\ plast.op = "free" =>
          /\ ~hstpip[plast.pipe]
          /\ ~hstpipcfg[plast.pipe].alloc
          /\ LET a == Alloc(Regs, PlainEndpoint, overflow_checks)
             IN  /\ a.ret = "Ok"
                 /\ a.pipe = LowestDisabled(Regs)
                 /\ a.pipe <= plast.pipe
    /\ (AllocConfigured /\ DisabledChannels(plast.pre) # {}) =>
          /\ plast.ret = "Ok"
          /\ plast.pipe = LowestDisabled(plast.pre)
          /\ plast.pipe # 0
    /\ (plast.op = "alloc" /\ plast.ret = "Ok") => plast.pipe # 0

\* C32: when the hardware rejects a configuration (CFGOK clear after the
\* allocation request) allocate returns InvalidConfiguration and reverts
\* the allocation: the channel is disabled, its ALLOC bit is clear and its
\* address field is unchanged, so a later allocate can take the channel.
C32_RejectedAllocationReverted ==
    (plast.op = "alloc" /\ ~plast.args.cfgok
        /\ plast.ret \notin {"PanicOverflow", "PanicUnreachable", "OutOfPipes"}) =>
        /\ plast.ret = "InvalidConfiguration"
        /\ ~hstpip[plast.pipe]
        /\ ~hstpipcfg[plast.pipe].alloc
        /\ hstaddr = plast.pre.hstaddr
        /\ Alloc(Regs, PlainEndpoint, overflow_checks).pipe = plast.pipe

---------------------------------------------------------------------------
\* Properties of the control transfer (SpecXfer).

\* The pipe of the transfer is as it was when the transfer began: enabled,
\* allocated, and configured for the same endpoint of the same device.
PipeKept ==
    /\ live[xfer.pipe] = 1
    /\ hstpip[xfer.pipe]
    /\ hstpipcfg[xfer.pipe].alloc
    /\ hstpipcfg[xfer.pipe].pepnum = xfer.pre.hstpipcfg[xfer.pipe].pepnum
    /\ hstpipcfg[xfer.pipe].ptype = xfer.pre.hstpipcfg[xfer.pipe].ptype
    /\ hstaddr[xfer.pipe] = xfer.pre.hstaddr[xfer.pipe]
    /\ \A p \in Pipes \ {xfer.pipe} :
         /\ hstpip[p] = xfer.pre.hstpip[p]
         /\ hstpipcfg[p] = xfer.pre.hstpipcfg[p]

---------------------------------------------------------------------------
\* Properties of the pipe size class (SpecSize).

\* init_0 or init_n was called and went past its checks on entry.
SizeComputed ==
    /\ plast.op \in {"init_0", "init_n"}
    /\ plast.args.ep_size \in PacketSizes

\* C30: the pipe size class is 0 for an 8-byte pipe and 1 for a 16-byte
\* pipe, and for every packet size in 8..1024 the class init_0 / init_n
\* compute is a value in the hardware's range 0..7, the subtraction not
\* underflowing.
C30_SizeClassInRange ==
    SizeComputed =>
        LET size == plast.args.ep_size
            sz   == PipeSize(size, overflow_checks)
        IN  /\ plast.ret # "PanicOverflow"
            /\ TrailingZeros(NextPowerOfTwo(size)) - 4 >= 0
            /\ sz.bits \in 0..7
            /\ plast.ret = "Ok" =>
                  /\ hstpipcfg[plast.pipe].psize = sz.bits
                  /\ size = 8 => hstpipcfg[plast.pipe].psize = 0
                  /\ size = 16 => hstpipcfg[plast.pipe].psize = 1

---------------------------------------------------------------------------
\* Properties of the pipe operations (SpecIo).

\* The call observed in plast was made on a channel that was not enabled.
OnDisabledPipe == ~plast.pre.hstpip[plast.pipe]

\* C33: send and write on a channel that is not enabled return
\* InvalidOperation and change no register and no byte of the RAM; on an
\* enabled channel send programs the requested token, clears the stale
\* completion flags and unfreezes the channel.
C33_DisabledPipeRefused ==
    /\ (plast.op \in {"send", "write"} /\ OnDisabledPipe) =>
          /\ plast.ret = "InvalidOperation"
          /\ Regs = plast.pre
          /\ ram = RamReset
    /\ (plast.op = "send" /\ ~OnDisabledPipe) =>
          /\ plast.ret = "Ok"
          /\ hstpipcfg[plast.pipe].ptoken = plast.args.token
          /\ \A t \in Tokens : ~TokenFlag(hstpipisr[plast.pipe], t)
          /\ ~hstpipimr[plast.pipe].pfreeze
          /\ \A q \in Pipes \ {plast.pipe} :
                /\ hstpipcfg[q] = plast.pre.hstpipcfg[q]
                /\ hstpipisr[q] = plast.pre.hstpipisr[q]
                /\ hstpipimr[q] = plast.pre.hstpipimr[q]

\* is_transfer_complete was called and has returned.
Polled ==
    /\ plast.op = "is_transfer_complete"
    /\ plast.ret \in {"true", "false"}

\* C34: is_transfer_complete(token) returns true exactly when the
\* completion flag of that token is set; when it returns true the channel
\* is frozen and that flag is cleared, for each of the three tokens; when it
\* returns false it has changed no register.
C34_PollReportsTokenFlag ==
    /\ Polled =>
          LET p    == plast.pipe
              t    == plast.args.token
              flag == TokenFlag(plast.pre.hstpipisr[p], t)
          IN  /\ plast.ret = "true" <=> flag
              /\ plast.ret = "true" =>
                    /\ hstpipimr[p].pfreeze
                    /\ ~TokenFlag(hstpipisr[p], t)
                    /\ \A u \in Tokens \ {t} :
                          TokenFlag(hstpipisr[p], u)
                             = TokenFlag(plast.pre.hstpipisr[p], u)
              /\ plast.ret = "false" => Regs = plast.pre
              /\ ram = RamReset
    /\ (plast.op = "is_transfer_complete" /\ plast.ret = "Hang") =>
          /\ plast.args.token = "IN"
          /\ ~plast.args.freezes
          /\ ~plast.pre.hstpipimr[plast.pipe].pfreeze

\* An IN token had completed on an unfrozen pipe: the poll waited for the
\* hardware to freeze it and returned true.
C34_Witness ==
    /\ Polled
    /\ plast.args.token = "IN"
    /\ plast.pre.hstpipisr[plast.pipe].rxini
    /\ ~plast.pre.hstpipimr[plast.pipe].pfreeze
    /\ plast.pre.hstpipisr[plast.pipe].txouti
    /\ plast.ret = "true"
    /\ hstpipimr[plast.pipe].pfreeze
    /\ ~hstpipisr[plast.pipe].rxini

\* The channels whose address sub-field lies in register r of
\* HSTADDR1..HSTADDR3.
ChannelsOfRegister(r) == {q \in Pipes : AddressRegister(q) = r}

\* C35: programming the device address of channel i updates exactly channel
\* i's address sub-field, in the register that holds it (channels 0-3, 4-7
\* and 8-9 in the first, second and third register), and leaves every other
\* channel's sub-field and every other register unchanged.
C35_AddressOfThatChannelOnly ==
    plast.op = "configure_address" =>
       /\ plast.ret = "Ok"
       /\ hstaddr[plast.pipe] = plast.args.address
       /\ \A q \in Pipes \ {plast.pipe} : hstaddr[q] = plast.pre.hstaddr[q]
       /\ ChannelsOfRegister(1) = 0..3
       /\ ChannelsOfRegister(2) = 4..7
       /\ ChannelsOfRegister(3) = 8..9
       /\ Regs = [plast.pre EXCEPT !.hstaddr[plast.pipe] = plast.args.address]
       /\ ram = RamReset

\* Channel 9, the second sub-field of the third register, was given an
\* address while channel 8 of the same register held another one.
C35_Witness ==
    /\ plast.op = "configure_address"
    /\ plast.pipe = 9
    /\ AddressRegister(8) = AddressRegister(9)
    /\ hstaddr[9] = plast.args.address
    /\ hstaddr[9] # plast.pre.hstaddr[9]
    /\ hstaddr[8] = plast.pre.hstaddr[8]
    /\ hstaddr[8] # 0

\* C36: each channel has its own slice of the shared transfer memory: a
\* write on channel i changes no byte that a read on another channel j
\* returns, and a read on channel i of the same length returns the bytes
\* written.
C36_ChannelSlicesDisjoint ==
    (plast.op = "write" /\ plast.ret = "Ok") =>
       /\ Read(ram, plast.pipe, Len(plast.args.buf)) = plast.args.buf
       /\ \A j \in Pipes \ {plast.pipe}, len \in 1..MaxBuf :
             Read(ram, j, len) = Read(RamReset, j, len)

---------------------------------------------------------------------------
\* Properties of the bulk and interrupt transfers (SpecXfer).

\* An in_transfer or out_transfer is under way or has returned.
Bulk == xfer.kind \in {"in_transfer", "out_transfer"}

C37_WitnessGaveUp ==
    /\ xfer.kind = "in_transfer"
    /\ xfer.stage = "done"
    /\ xfer.ret = "TransferError"
    /\ xfer.attempts = NAK_LIMIT

---------------------------------------------------------------------------
\* Properties of the interrupt mask (SpecIrq).

\* The steps of `steps` that push the observation of a disconnect or of a
\* connect.
EdgePushes(steps) ==
    {i \in 1..Len(steps) :
        /\ steps[i].op = "push"
        /\ steps[i].ev.why \in {"disconnect", "connect"}}

\* The invocation's next step is the push of the observation `why`, and the
\* step is made.
PushesNow(why) ==
    /\ hsteps # <<>>
    /\ Head(hsteps).op = "push"
    /\ Head(hsteps).ev.why = why
    /\ hsteps' = Tail(hsteps)

\* C39: with the interrupt mask as init leaves it, the connect-detect and
\* disconnect-detect enables are never both set, at any step of the
\* handler: an invocation that handles a connect has disabled connect
\* detection and enabled disconnect detection when it pushes
\* Attached(Configuring), one that handles a disconnect has done the
\* reverse when it pushes Detached, and no invocation pushes both.
C39_OneEdgeDetectorEnabled ==
    /\ [](~(hstimr.dconnie /\ hstimr.ddiscie))
    /\ [](Cardinality(EdgePushes(hsteps)) <= 1)
    /\ [][/\ PushesNow("connect") =>
                hstimr' = [dconnie |-> FALSE, ddiscie |-> TRUE]
          /\ PushesNow("disconnect") =>
                hstimr' = [dconnie |-> TRUE, ddiscie |-> FALSE]
          /\ hstimr' # hstimr =>
                Cardinality(EdgePushes(hsteps)) = 1]_vars

\* A connect and then a disconnect were handled, in two invocations: both
\* observations are queued and connect detection is enabled again.
C39_Witness ==
    /\ hsteps = <<>>
    /\ Len(events) = 2
    /\ events[1] = Event(AttachedConfiguring, "connect")
    /\ events[2] = Event(Detached, "disconnect")
    /\ hstimr = [dconnie |-> TRUE, ddiscie |-> FALSE]

---------------------------------------------------------------------------
\* Properties of the pipe handle (SpecIo).

\* C40: every pipe number Pipe::get accepts (0..MAX_PIPES-1) can go through
\* enabled, enable, disable and reset without reaching an unreachable
\* branch; Pipe::get returns OutOfRange for every number from MAX_PIPES on
\* and makes no handle for it.
C40_AcceptedIndexNeverUnreachable ==
    /\ plast.pipe >= MAX_PIPES <=> plast.op = "get"
    /\ plast.op = "get" => (plast.ret = "OutOfRange" /\ ~ENABLED NextIo)
    /\ plast.op \in {"enabled", "enable", "disable", "reset"} =>
          /\ plast.ret # "PanicUnreachable"
          /\ halted = "running"

===========================================================================
